---- MODULE Spec2Model ----
(***************************************************************************)
(* A model of the B+Tree index of bokedb (src/src/storage.rs): the         *)
(* in-memory pager, the pages, and the tree operations find, find_range,   *)
(* insert (with tombstone garbage collection and split propagation) and    *)
(* delete (soft delete along the sibling chain).                           *)
(*                                                                         *)
(* Vectors are modelled as sequences; every index below is the 0-based     *)
(* index of the source, and the helpers At/InsertAt/RemoveAt/SetAt do the  *)
(* translation to 1-based sequences.  An Option<u32> is a sequence of      *)
(* length 0 (None) or 1 (Some(x)).  A Rust panic (failed unwrap, index out *)
(* of bounds, failed assertion) is carried as a panic flag in the result   *)
(* of the operator in which it happens and ends the run (status "panic").  *)
(***************************************************************************)
EXTENDS Integers, Sequences, FiniteSets, TLC

\* ---------------------------------------------------------------- bounds
\* runs that mix inserts and deletes: keys of a unique tree, keys of a
\* non-unique tree, entries stored in the pages
MaxKey == 5
DupKey == 3
MaxEntries == 5
\* entries of an encoded page, bits of a packed bit sequence
MaxPageLen == 9
MaxBits == 10
\* characters of a text, values of a row, payload bytes of a raw input
MaxText == 2
MaxRow == 2
MaxRaw == 3
\* page ids written to the page stores
MaxPid == 2
\* keys and stored entries of the runs that fill a tree and then delete from it
FillKey == 5
FillEntries == 5
\* the largest branching factor handed to the constructor
MaxB == 6
\* keys and stored entries of the runs that mix reads with inserts and deletes
ReadKey == 3
ReadEntries == 3
\* the largest bound of the write ahead log of a FilePager
MaxWal == 2
\* stored entries of the runs over every branching factor
WideEntries == 5

Keys == 1..MaxKey
KeysOf(unique) == IF unique THEN 1..MaxKey ELSE 1..DupKey
FillKeys == 1..FillKey
\* branching factors the tree is built with (odd, > 2)
Branchings == {3}

VARIABLES
    b,          \* BTree.b
    is_unique,  \* BTree.is_unique
    depth,      \* BTree.depth
    root_id,    \* BTree.root_id
    next_id,    \* BTree.next_id
    pager,      \* MemPager.pages: the pages, sorted by id
    status,     \* "ok", or "panic" / "hang" once a call did not return
    watch,      \* history: the key whose calls are recorded (any key, fixed at the start)
    hist,       \* history: the values inserted with Ok under watch since the last delete(watch)
    wdel,       \* history: the last delete(watch) returned Ok and no insert(watch) came since
    phase,      \* history: "ins" (only inserts so far), "del" (no insert since the first delete), "mix"
    input,      \* the value handed to an encoder, or the bytes handed to a decoder
    bytes,      \* the bytes returned by the encoder
    output,     \* what the decoder returned
    fp,         \* FilePager: wal, cache, offsets and the pages of the file
    stored      \* history: the page last written to the pagers under each id

vars == <<b, is_unique, depth, root_id, next_id, pager, status, watch, hist, wdel, phase,
          input, bytes, output, fp, stored>>
\* the tree, the codec run and the page stores
tree == <<b, is_unique, depth, root_id, next_id, pager, status, watch, hist, wdel, phase>>
codec == <<input, bytes, output>>
stores == <<fp, stored>>

\* the values stored: the tree never inspects a value; two values tell the
\* entries of the watched key apart, the other keys are stored with one value
Vals == {10, 20}
ValsOf(key) == IF key = watch THEN Vals ELSE {10}

\* ------------------------------------------------- vectors and options
None == <<>>
Some(x) == <<x>>
IsSome(o) == Len(o) = 1
Unwrap(o) == o[1]

At(s, i) == s[i + 1]
InsertAt(s, i, e) == SubSeq(s, 1, i) \o <<e>> \o SubSeq(s, i + 1, Len(s))
RemoveAt(s, i) == SubSeq(s, 1, i) \o SubSeq(s, i + 2, Len(s))
SetAt(s, i, e) == [s EXCEPT ![i + 1] = e]
\* a source page that keeps one element less
KeepShort(s, i) == SubSeq(s, 1, i - 1)

\* a drain that starts one element early
DrainEarly(s, i) == SubSeq(s, i, Len(s))

\* Vec::drain(i..): the part kept and the part drained
Keep(s, i) == SubSeq(s, 1, i)
Drain(s, i) == SubSeq(s, i + 1, Len(s))

MinOf(S) == CHOOSE x \in S : \A y \in S : x <= y

\* ---------------------------------------------------------------- pages
Leaf == "Leaf"
Interior == "Interior"

EmptyLeaf(id) ==
    [id |-> id, ptype |-> Leaf, deleted |-> <<>>, keys |-> <<>>, vals |-> <<>>,
     children |-> <<>>, sibling |-> None]

\* a Page::find that also steps over a key equal to the one searched
PageFindPastEqual(page, key) ==
    LET n == Len(page.keys)
        stop == {i \in 0..(n - 1) : ~(key >= At(page.keys, i))}
    IN  IF stop = {} THEN n ELSE MinOf(stop)

\* a Page::find that always answers the first index
PageFindZero(page, key) == 0

\* Page::find: the number of leading keys that the key is greater than
PageFind(page, key) ==
    LET n == Len(page.keys)
        stop == {i \in 0..(n - 1) : ~(key > At(page.keys, i))}
    IN  IF stop = {} THEN n ELSE MinOf(stop)

\* slice::binary_search on a sorted slice: Ok(i) for any i holding the key
\* (which one is left open by the library), else Err(insertion index)
SearchOk(keys, key) == {i \in 0..(Len(keys) - 1) : At(keys, i) = key}
\* a failed search that reports the end of the slice as the insertion index
SearchErrEnd(keys, key) == Len(keys)
SearchErr(keys, key) == Cardinality({i \in 0..(Len(keys) - 1) : At(keys, i) < key})
BinarySearch(keys, key) ==
    IF SearchOk(keys, key) # {}
    THEN {[found |-> TRUE, idx |-> i] : i \in SearchOk(keys, key)}
    ELSE {[found |-> FALSE, idx |-> SearchErr(keys, key)]}

\* ---------------------------------------------------------------- MemPager
HasPage(pages, id) == \E i \in 1..Len(pages) : pages[i].id = id
ReadPage(pages, id) == pages[CHOOSE i \in 1..Len(pages) : pages[i].id = id]
\* a pager that overwrites known ids and drops the pages of new ids
WritePageKnownOnly(pages, page) ==
    [i \in 1..Len(pages) |-> IF pages[i].id = page.id THEN page ELSE pages[i]]

WritePage(pages, page) ==
    IF HasPage(pages, page.id)
    THEN [i \in 1..Len(pages) |-> IF pages[i].id = page.id THEN page ELSE pages[i]]
    ELSE LET idx == Cardinality({i \in 1..Len(pages) : pages[i].id < page.id})
         IN  InsertAt(pages, idx, page)

\* ---------------------------------------------------------------- descent
\* the loop of BTree::find_leaf and the first loop of BTree::insert
RECURSIVE Descend(_, _, _, _, _)
Descend(pages, id, d, key, visited) ==
    IF d = 0 THEN [panic |-> FALSE, id |-> id, visited |-> visited]
    ELSE IF ~HasPage(pages, id) THEN [panic |-> TRUE, id |-> id, visited |-> visited]
    ELSE LET page == ReadPage(pages, id)
             idx == PageFind(page, key)
         IN  IF idx >= Len(page.children)
             THEN [panic |-> TRUE, id |-> id, visited |-> visited]
             ELSE Descend(pages, At(page.children, idx), d - 1, key, Append(visited, id))

\* the fields of the tree
Tree == [pages |-> pager, depth |-> depth, root_id |-> root_id, next_id |-> next_id,
         panic |-> FALSE]

\* BTree::find_leaf on the tree t
FindLeaf(t, key) == Descend(t.pages, t.root_id, t.depth, key, <<>>)

\* ---------------------------------------------------------------- find
\* the match arm of BTree::find for one outcome s of the binary search
FindIn(leaf, s) ==
    IF ~s.found THEN [panic |-> FALSE, val |-> None]
    ELSE IF s.idx >= Len(leaf.deleted) THEN [panic |-> TRUE, val |-> None]
    ELSE IF At(leaf.deleted, s.idx) THEN [panic |-> FALSE, val |-> None]
    ELSE IF s.idx >= Len(leaf.vals) THEN [panic |-> TRUE, val |-> None]
    ELSE [panic |-> FALSE, val |-> Some(At(leaf.vals, s.idx))]

\* BTree::find on the tree t: every result the call can return
FindT(t, key) ==
    LET d == FindLeaf(t, key)
    IN  IF d.panic \/ ~HasPage(t.pages, d.id) THEN {[panic |-> TRUE, val |-> None]}
        ELSE LET leaf == ReadPage(t.pages, d.id)
             IN  {FindIn(leaf, s) : s \in BinarySearch(leaf.keys, key)}

Find(key) == FindT(Tree, key)

\* ---------------------------------------------------------------- find_range
\* the pairs pushed by the inner for loop over i in from..(to - 1)
RECURSIVE Emit(_, _, _)
Emit(leaf, from, to) ==
    IF from >= to THEN <<>>
    ELSE (IF At(leaf.deleted, from) THEN <<>>
          ELSE << <<At(leaf.keys, from), At(leaf.vals, from)>> >>)
         \o Emit(leaf, from + 1, to)

\* the 'outer loop of BTree::find_range; fuel bounds the passes, a chain that
\* outlasts it never ends
RECURSIVE RangeLoop(_, _, _, _, _, _)
RangeLoop(pages, leaf, idx, max, kvs, fuel) ==
    LET n == Len(leaf.vals)
        over == {i \in idx..(n - 1) : At(leaf.keys, i) > max}
        to == IF over = {} THEN n ELSE MinOf(over)
        out == kvs \o Emit(leaf, idx, to)
    IN  IF over # {} THEN [panic |-> FALSE, hang |-> FALSE, kvs |-> out]
        ELSE IF ~IsSome(leaf.sibling) THEN [panic |-> FALSE, hang |-> FALSE, kvs |-> out]
        ELSE IF ~HasPage(pages, Unwrap(leaf.sibling))
             THEN [panic |-> TRUE, hang |-> FALSE, kvs |-> out]
        ELSE IF fuel = 0 THEN [panic |-> FALSE, hang |-> TRUE, kvs |-> out]
        ELSE RangeLoop(pages, ReadPage(pages, Unwrap(leaf.sibling)), 0, max, out, fuel - 1)

\* BTree::find_range: every result the call can return
FindRange(min, max) ==
    LET d == FindLeaf(Tree, min)
    IN  IF d.panic \/ ~HasPage(pager, d.id)
        THEN {[panic |-> TRUE, hang |-> FALSE, kvs |-> <<>>]}
        ELSE LET leaf == ReadPage(pager, d.id)
             IN  {RangeLoop(pager, leaf, s.idx, max, <<>>, Len(pager)) :
                     s \in BinarySearch(leaf.keys, min)}

\* ---------------------------------------------------------------- insert
\* the index picked by the garbage collection of BTree::insert: the position
\* of the first set bit of deleted.iter().rev().enumerate()
GcIndex(deleted) ==
    LET n == Len(deleted)
        hits == {i \in 0..(n - 1) : At(deleted, n - 1 - i)}
    IN  IF hits = {} THEN None ELSE Some(MinOf(hits))

\* a garbage collection that removes the key and the tombstone bit and leaves
\* the value
GarbageCollectNoVal(page) ==
    LET g == GcIndex(page.deleted)
    IN  IF IsSome(g)
        THEN [page EXCEPT !.deleted = RemoveAt(page.deleted, Unwrap(g)),
                          !.keys = RemoveAt(page.keys, Unwrap(g))]
        ELSE page

\* "we can garbage collect one entry": remove(i) on deleted, keys and vals
GarbageCollect(page) ==
    LET g == GcIndex(page.deleted)
    IN  IF IsSome(g)
        THEN [page EXCEPT !.deleted = RemoveAt(page.deleted, Unwrap(g)),
                          !.keys = RemoveAt(page.keys, Unwrap(g)),
                          !.vals = RemoveAt(page.vals, Unwrap(g))]
        ELSE page

\* a split test that lets a page reach b keys
NeedsSplitLate(page) == Len(page.keys) > b

\* "needs_split": the page holds b keys or more
NeedsSplit(page) == Len(page.keys) >= b

\* a new right page whose right sibling is its source
NewSiblingSource(page) == Some(page.id)

\* a new right page that does not take over the right sibling of its source
NewSiblingNone(page) == None

\* the right sibling given to the new right page ("sibling: page.sibling")
NewSibling(page) == page.sibling

\* BTree::divide_page: the source page after the drain, and the new right page
DividePage(page, nid) ==
    LET split_idx == b \div 2
        bad == split_idx + 1 > Len(page.keys)
               \/ (page.ptype = Leaf /\ (split_idx + 1 > Len(page.vals)
                                        \/ split_idx + 1 > Len(page.deleted)))
               \/ (page.ptype # Leaf /\ split_idx + 1 > Len(page.children))
        r0 == [id |-> nid, ptype |-> page.ptype, deleted |-> <<>>,
               keys |-> Drain(page.keys, split_idx + 1), vals |-> <<>>,
               children |-> <<>>, sibling |-> NewSibling(page)]
    IN  IF bad THEN [panic |-> TRUE, page |-> page, sibling |-> r0]
        ELSE IF page.ptype = Leaf
        THEN [panic |-> FALSE,
              page |-> [page EXCEPT !.keys = Keep(page.keys, split_idx + 1),
                                    !.vals = Keep(page.vals, split_idx + 1),
                                    !.deleted = Keep(page.deleted, split_idx + 1),
                                    !.sibling = Some(nid)],
              sibling |-> [r0 EXCEPT !.vals = Drain(page.vals, split_idx + 1),
                                     !.deleted = Drain(page.deleted, split_idx + 1)]]
        ELSE [panic |-> FALSE,
              page |-> [page EXCEPT !.keys = Keep(page.keys, split_idx + 1),
                                    !.children = Keep(page.children, split_idx + 1)],
              sibling |-> [r0 EXCEPT !.children = Drain(page.children, split_idx + 1)]]

\* BTree::split_page: the page, its parent and the new sibling after the split
SplitPage(page, parent, nid) ==
    LET split_idx == b \div 2
        split_key == At(page.keys, split_idx)
        d == DividePage(page, nid)
        idx == PageFind(parent, split_key)
        kids == InsertAt(parent.children, idx, page.id)
    IN  IF Len(page.keys) < b \/ d.panic \/ idx > Len(parent.children)
           \/ idx + 1 >= Len(parent.children) + 1
        THEN [panic |-> TRUE, page |-> page, parent |-> parent, sibling |-> d.sibling]
        ELSE [panic |-> FALSE, page |-> d.page, sibling |-> d.sibling,
              parent |-> [parent EXCEPT !.keys = InsertAt(parent.keys, idx, split_key),
                                        !.children = SetAt(kids, idx + 1, d.sibling.id)]]

\* a root split whose new root is made a leaf page
SplitRootLeafKind(page, nid) ==
    LET split_idx == b \div 2
        d == DividePage(page, nid)
    IN  IF split_idx >= Len(page.keys) \/ d.panic
        THEN [panic |-> TRUE, page |-> page, sibling |-> d.sibling, root |-> page]
        ELSE [panic |-> FALSE, page |-> d.page, sibling |-> d.sibling,
              root |-> [id |-> nid + 1, ptype |-> Leaf, deleted |-> <<>>,
                        keys |-> <<At(page.keys, split_idx)>>, vals |-> <<>>,
                        children |-> <<page.id, d.sibling.id>>, sibling |-> None]]

\* a root split whose new root takes the id of the old root
SplitRootReusedId(page, nid) ==
    LET split_idx == b \div 2
        d == DividePage(page, nid)
    IN  IF split_idx >= Len(page.keys) \/ d.panic
        THEN [panic |-> TRUE, page |-> page, sibling |-> d.sibling, root |-> page]
        ELSE [panic |-> FALSE, page |-> d.page, sibling |-> d.sibling,
              root |-> [id |-> page.id, ptype |-> Interior, deleted |-> <<>>,
                        keys |-> <<At(page.keys, split_idx)>>, vals |-> <<>>,
                        children |-> <<page.id, d.sibling.id>>, sibling |-> None]]

\* a root split whose new root lists the new sibling before the old root
SplitRootSwapped(page, nid) ==
    LET split_idx == b \div 2
        d == DividePage(page, nid)
    IN  IF split_idx >= Len(page.keys) \/ d.panic
        THEN [panic |-> TRUE, page |-> page, sibling |-> d.sibling, root |-> page]
        ELSE [panic |-> FALSE, page |-> d.page, sibling |-> d.sibling,
              root |-> [id |-> nid + 1, ptype |-> Interior, deleted |-> <<>>,
                        keys |-> <<At(page.keys, split_idx)>>, vals |-> <<>>,
                        children |-> <<d.sibling.id, page.id>>, sibling |-> None]]

\* BTree::split_root: the old root, its new sibling and the new root
SplitRoot(page, nid) ==
    LET split_idx == b \div 2
        d == DividePage(page, nid)
    IN  IF split_idx >= Len(page.keys) \/ d.panic
        THEN [panic |-> TRUE, page |-> page, sibling |-> d.sibling, root |-> page]
        ELSE [panic |-> FALSE, page |-> d.page, sibling |-> d.sibling,
              root |-> [id |-> nid + 1, ptype |-> Interior, deleted |-> <<>>,
                        keys |-> <<At(page.keys, split_idx)>>, vals |-> <<>>,
                        children |-> <<page.id, d.sibling.id>>, sibling |-> None]]

\* the split loop of BTree::insert ("for _ in 0..max_splits"); t holds the
\* tree fields, page the page to split, visited the path stack
RECURSIVE SplitLoop(_, _, _, _)
SplitLoop(t, page, visited, splits) ==
    IF splits = 0 THEN t
    ELSE IF visited # <<>>
    THEN LET par_id == visited[Len(visited)]
         IN  IF ~HasPage(t.pages, par_id) THEN [t EXCEPT !.panic = TRUE]
             ELSE LET s == SplitPage(page, ReadPage(t.pages, par_id), t.next_id)
                      t1 == [t EXCEPT !.pages = WritePage(WritePage(t.pages, s.page), s.sibling),
                                      !.next_id = t.next_id + 1]
                  IN  IF s.panic THEN [t EXCEPT !.panic = TRUE]
                      ELSE IF ~NeedsSplit(s.parent)
                      THEN [t1 EXCEPT !.pages = WritePage(t1.pages, s.parent)]
                      ELSE SplitLoop(t1, s.parent, SubSeq(visited, 1, Len(visited) - 1),
                                     splits - 1)
    ELSE LET s == SplitRoot(page, t.next_id)
         IN  IF t.root_id # page.id \/ s.panic THEN [t EXCEPT !.panic = TRUE]
             ELSE [t EXCEPT !.pages = WritePage(WritePage(WritePage(t.pages, s.page),
                                                          s.sibling), s.root),
                            !.next_id = t.next_id + 2,
                            !.root_id = s.root.id,
                            !.depth = t.depth + 1]

\* the pages the split loop of BTree::insert hands to divide_page, in order,
\* each with the id its new sibling gets
RECURSIVE SplitInputs(_, _, _, _)
SplitInputs(t, page, visited, splits) ==
    IF splits = 0 THEN <<>>
    ELSE IF visited # <<>>
    THEN LET par_id == visited[Len(visited)]
         IN  IF ~HasPage(t.pages, par_id) THEN <<>>
             ELSE LET s == SplitPage(page, ReadPage(t.pages, par_id), t.next_id)
                      t1 == [t EXCEPT !.pages = WritePage(WritePage(t.pages, s.page), s.sibling),
                                      !.next_id = t.next_id + 1]
                  IN  IF s.panic THEN <<>>
                      ELSE <<[page |-> page, nid |-> t.next_id]>>
                           \o (IF ~NeedsSplit(s.parent) THEN <<>>
                               ELSE SplitInputs(t1, s.parent,
                                                SubSeq(visited, 1, Len(visited) - 1),
                                                splits - 1))
    ELSE IF t.root_id # page.id \/ SplitRoot(page, t.next_id).panic THEN <<>>
         ELSE <<[page |-> page, nid |-> t.next_id]>>

\* a test that lets every key in, present or not
MayInsertAlways(s) == TRUE

\* a test that refuses a key that is present also when duplicates are allowed
MayInsertAbsentOnly(s) == ~s.found

\* "key is not present, or duplicates are allowed: OK to insert"
MayInsert(s) == ~s.found \/ (s.found /\ ~is_unique)

\* BTree::insert for one outcome s of the binary search in the leaf: the tree
\* fields after the call and the value returned
InsertAtLeaf(t, visited, leaf, key, val, s) ==
    IF MayInsert(s)
    THEN LET page == GarbageCollect(
                        [leaf EXCEPT !.keys = InsertAt(leaf.keys, s.idx, key),
                                     !.vals = InsertAt(leaf.vals, s.idx, val),
                                     !.deleted = InsertAt(leaf.deleted, s.idx, FALSE)])
         IN  IF s.idx > Len(leaf.vals) \/ s.idx > Len(leaf.deleted)
             THEN [t |-> [t EXCEPT !.panic = TRUE], res |-> "Panic"]
             ELSE IF ~NeedsSplit(page)
             THEN [t |-> [t EXCEPT !.pages = WritePage(t.pages, page)], res |-> "Ok"]
             ELSE [t |-> SplitLoop(t, page, visited, t.depth + 1), res |-> "Ok"]
    ELSE IF s.idx >= Len(leaf.deleted)
    THEN [t |-> [t EXCEPT !.panic = TRUE], res |-> "Panic"]
    ELSE IF At(leaf.deleted, s.idx)
    THEN [t |-> [t EXCEPT !.pages =
                    WritePage(t.pages, [leaf EXCEPT !.vals = SetAt(leaf.vals, s.idx, val),
                                                    !.deleted = SetAt(leaf.deleted, s.idx, FALSE)])],
          res |-> "Ok"]
    ELSE [t |-> t, res |-> "DuplicateKey"]

\* BTree::insert: every outcome of the call
InsertOutcomes(key, val) ==
    LET d == Descend(pager, root_id, depth, key, <<>>)
    IN  IF d.panic \/ ~HasPage(pager, d.id)
        THEN {[t |-> [Tree EXCEPT !.panic = TRUE], res |-> "Panic"]}
        ELSE LET leaf == ReadPage(pager, d.id)
             IN  {InsertAtLeaf(Tree, d.visited, leaf, key, val, s) :
                     s \in BinarySearch(leaf.keys, key)}

\* ---------------------------------------------------------------- delete
\* a marking that stops after the first matching entry
TombstoneFirst(deleted, idx, to) ==
    [i \in 1..Len(deleted) |-> IF i - 1 = idx /\ idx < to THEN TRUE ELSE deleted[i]]

\* a marking that runs one entry too far
TombstonePastEnd(deleted, idx, to) ==
    [i \in 1..Len(deleted) |-> IF idx <= i - 1 /\ i - 1 <= to THEN TRUE ELSE deleted[i]]

\* a marking that runs to the end of the leaf
TombstoneToEnd(deleted, idx, to) ==
    [i \in 1..Len(deleted) |-> IF idx <= i - 1 THEN TRUE ELSE deleted[i]]

\* the tombstone bits after "leaf.deleted[i] = true" for i in idx..(to - 1)
Tombstone(deleted, idx, to) ==
    [i \in 1..Len(deleted) |-> IF idx <= i - 1 /\ i - 1 < to THEN TRUE ELSE deleted[i]]

\* the 'outer loop of BTree::delete; fuel bounds the passes, a chain that
\* outlasts it never ends
RECURSIVE DeleteLoop(_, _, _, _, _)
DeleteLoop(pages, id, key, n_deleted, fuel) ==
    IF ~HasPage(pages, id)
    THEN [panic |-> TRUE, hang |-> FALSE, pages |-> pages, n |-> n_deleted]
    ELSE LET leaf == ReadPage(pages, id)
             idx == PageFind(leaf, key)
             m == Len(leaf.deleted)
             other == {i \in idx..(m - 1) : At(leaf.keys, i) # key}
             to == IF other = {} THEN m ELSE MinOf(other)
             marked == [leaf EXCEPT !.deleted = Tombstone(leaf.deleted, idx, to)]
             count == IF to > idx THEN to - idx ELSE 0
             written == IF count > 0 THEN WritePage(pages, marked) ELSE pages
             done == [panic |-> FALSE, hang |-> FALSE, pages |-> written,
                      n |-> n_deleted + count]
         IN  IF other # {} THEN done
             ELSE IF ~IsSome(leaf.sibling) THEN done
             ELSE IF fuel = 0 THEN [done EXCEPT !.hang = TRUE]
             ELSE DeleteLoop(written, Unwrap(leaf.sibling), key, n_deleted + count, fuel - 1)

\* BTree::delete: the pager after the call and the count of marked entries
DeleteOutcome(key) ==
    LET d == FindLeaf(Tree, key)
    IN  IF d.panic THEN [panic |-> TRUE, hang |-> FALSE, pages |-> pager, n |-> 0]
        ELSE DeleteLoop(pager, d.id, key, 0, Len(pager))

\* a delete that reports success whatever it counted
DeleteResultOk(n) == "Ok"

\* the value returned by BTree::delete for the count n_deleted
DeleteResult(n) == IF n > 0 THEN "Ok" ELSE "KeyNotFound"

\* ---------------------------------------------------------------- the tree
RECURSIVE SumLen(_, _)
SumLen(f, S) ==
    IF S = {} THEN 0
    ELSE LET x == CHOOSE y \in S : TRUE IN Len(f[x]) + SumLen(f, S \ {x})

\* entries held by the pages of the pager
Entries == SumLen([i \in 1..Len(pager) |-> pager[i].vals], 1..Len(pager))

\* BTree::new
New(keys, ph) ==
    /\ b \in Branchings
    /\ is_unique \in BOOLEAN
    /\ depth = 0
    /\ root_id = 0
    /\ next_id = 1
    /\ pager = <<EmptyLeaf(0)>>
    /\ status = "ok"
    /\ watch \in keys
    /\ hist = <<>>
    /\ wdel = FALSE
    /\ phase = ph

\* no codec run, and page stores that are not used
NoCodec == input = <<>> /\ bytes = <<>> /\ output = <<>>
NoStores ==
    /\ fp = [wal |-> <<>>, wal_max |-> 0, cache |-> <<>>, offsets |-> <<>>, file |-> <<>>]
    /\ stored = [mem |-> <<>>, file |-> <<>>]

Insert(key, val) ==
    /\ status = "ok"
    /\ \E o \in InsertOutcomes(key, val) :
          /\ status' = IF o.t.panic THEN "panic" ELSE "ok"
          /\ pager' = IF o.t.panic THEN pager ELSE o.t.pages
          /\ depth' = IF o.t.panic THEN depth ELSE o.t.depth
          /\ root_id' = IF o.t.panic THEN root_id ELSE o.t.root_id
          /\ next_id' = IF o.t.panic THEN next_id ELSE o.t.next_id
          /\ hist' = IF key = watch /\ ~o.t.panic /\ o.res = "Ok"
                     THEN Append(hist, val) ELSE hist
    /\ wdel' = (wdel /\ key # watch)
    /\ phase' = IF phase = "ins" THEN "ins" ELSE "mix"
    /\ UNCHANGED <<b, is_unique, watch, codec, stores>>

Delete(key) ==
    /\ status = "ok"
    /\ LET o == DeleteOutcome(key)
       IN  /\ status' = IF o.panic THEN "panic" ELSE IF o.hang THEN "hang" ELSE "ok"
           /\ pager' = IF o.panic \/ o.hang THEN pager ELSE o.pages
           /\ wdel' = IF key = watch THEN ~o.panic /\ ~o.hang /\ o.n > 0 ELSE wdel
    /\ hist' = IF key = watch THEN <<>> ELSE hist
    /\ phase' = IF phase = "ins" THEN "del" ELSE phase
    /\ UNCHANGED <<b, is_unique, depth, root_id, next_id, watch, codec, stores>>

\* any sequence of inserts and deletes
Init == New(Keys, "mix") /\ watch \in KeysOf(is_unique) /\ NoCodec /\ NoStores

Next ==
    \/ \E key \in KeysOf(is_unique) : \E val \in ValsOf(key) :
          Entries < MaxEntries /\ Len(hist) < MaxEntries /\ Insert(key, val)
    \/ \E key \in KeysOf(is_unique) : Delete(key)

Spec == Init /\ [][Next]_vars

\* a tree filled by inserts, then deletes with no insert after them
InitFill == New(FillKeys, "ins") /\ NoCodec /\ NoStores

NextFill ==
    \/ \E key \in FillKeys : \E val \in ValsOf(key) :
          phase = "ins" /\ Entries < FillEntries /\ Insert(key, val)
    \/ \E key \in FillKeys : Delete(key)

SpecFill == InitFill /\ [][NextFill]_vars

\* ---- the constructor with any branching factor, and reads of the new tree ----

\* a constructor that asserts b > 2 only
NewAbortsSmallOnly(bb) == ~(bb > 2)

\* the two assertions of BTree::new: b is odd, and b > 2
NewAborts(bb) == ~(bb % 2 = 1) \/ ~(bb > 2)

\* BTree::new(bb, unique)
NewTree(bb, unique) ==
    /\ b = bb /\ is_unique = unique
    /\ status = IF NewAborts(bb) THEN "panic" ELSE "ok"
    /\ depth = 0 /\ root_id = 0 /\ next_id = 1
    /\ pager = <<[id |-> 0, keys |-> <<>>, vals |-> <<>>, children |-> <<>>,
                  deleted |-> <<>>, ptype |-> Leaf, sibling |-> None]>>
    /\ watch = 1 /\ hist = <<>> /\ wdel = FALSE /\ phase = "mix"

\* a read_page that drops the page it returns from the pager
AfterReadEvict(pages, id) == SelectSeq(pages, LAMBDA p : p.id # id)

\* the pages of the MemPager after read_page(id): the call only looks the page up
AfterRead(pages, id) == pages

\* the pager after the read_page calls of one operation, in order
RECURSIVE AfterReads(_, _)
AfterReads(pages, ids) ==
    IF ids = <<>> THEN pages ELSE AfterReads(AfterRead(pages, Head(ids)), Tail(ids))

\* the leaves read by the 'outer loop of BTree::find_range after the first one
RECURSIVE RangeReads(_, _, _, _, _)
RangeReads(pages, leaf, idx, max, fuel) ==
    LET over == {i \in idx..(Len(leaf.vals) - 1) : At(leaf.keys, i) > max}
    IN  IF over # {} \/ ~IsSome(leaf.sibling) THEN <<>>
        ELSE IF ~HasPage(pages, Unwrap(leaf.sibling)) THEN <<Unwrap(leaf.sibling)>>
        ELSE IF fuel = 0 THEN <<>>
        ELSE <<Unwrap(leaf.sibling)>>
             \o RangeReads(pages, ReadPage(pages, Unwrap(leaf.sibling)), 0, max, fuel - 1)

\* a call of BTree::find, its result kept in output
FindCall(key) ==
    /\ status = "ok"
    /\ \E r \in Find(key) :
          /\ status' = IF r.panic THEN "panic" ELSE "ok"
          /\ output' = Some([op |-> "find", min |-> key, max |-> key, val |-> r.val,
                             kvs |-> <<>>])
    /\ LET d == FindLeaf(Tree, key)
       IN  pager' = AfterReads(pager, d.visited \o <<d.id>>)
    /\ UNCHANGED <<b, is_unique, depth, root_id, next_id, watch, hist, wdel, phase,
                   input, bytes, stores>>

\* a call of BTree::find_range, its result kept in output
FindRangeCall(min, max) ==
    /\ status = "ok"
    /\ LET d == FindLeaf(Tree, min)
           leaf == ReadPage(pager, d.id)
       IN  IF d.panic \/ ~HasPage(pager, d.id)
           THEN /\ status' = "panic" /\ output' = None
                /\ pager' = AfterReads(pager, d.visited \o <<d.id>>)
           ELSE \E s \in BinarySearch(leaf.keys, min) :
                   LET r == RangeLoop(pager, leaf, s.idx, max, <<>>, Len(pager))
                   IN  /\ status' = IF r.panic THEN "panic"
                                     ELSE IF r.hang THEN "hang" ELSE "ok"
                       /\ output' = Some([op |-> "find_range", min |-> min, max |-> max,
                                          val |-> None, kvs |-> r.kvs])
                       /\ pager' = AfterReads(pager,
                                        d.visited \o <<d.id>>
                                        \o RangeReads(pager, leaf, s.idx, max, Len(pager)))
    /\ UNCHANGED <<b, is_unique, depth, root_id, next_id, watch, hist, wdel, phase,
                   input, bytes, stores>>

InitNew == (\E bb \in 0..MaxB : \E unique \in BOOLEAN : NewTree(bb, unique)) /\ NoCodec /\ NoStores

NextNew ==
    \/ \E key \in Keys : FindCall(key)
    \/ \E min \in Keys : \E max \in Keys : FindRangeCall(min, max)

SpecNew == InitNew /\ [][NextNew]_vars

\* ---- inserts and deletes on trees of every branching factor the constructor accepts ----
InitWide ==
    /\ \E bb \in {x \in 0..MaxB : ~NewAborts(x)} : \E unique \in BOOLEAN : NewTree(bb, unique)
    /\ NoCodec /\ NoStores

NextWide ==
    \/ \E key \in KeysOf(is_unique) : \E val \in ValsOf(key) :
          Entries < WideEntries /\ Len(hist) < WideEntries /\ Insert(key, val)
    \/ \E key \in KeysOf(is_unique) : Delete(key)

SpecWide == InitWide /\ [][NextWide]_vars

\* ---- inserts, deletes and reads of a small tree ----
InitReads == New({1}, "mix") /\ NoCodec /\ NoStores

NextReads ==
    \/ \E key \in 1..ReadKey : \E val \in ValsOf(key) :
          Entries < ReadEntries /\ Len(hist) < ReadEntries /\ Insert(key, val)
    \/ \E key \in 1..ReadKey : Delete(key)
    \/ \E key \in 1..ReadKey : FindCall(key)
    \/ \E min \in 1..ReadKey : \E max \in 1..ReadKey : FindRangeCall(min, max)

SpecReads == InitReads /\ [][NextReads]_vars

\* ---------------------------------------------------------------- bytes
PAGE_SIZE == 65536
\* size_of::<i32>(), the key size written in the page header
KEY_SIZE == 4

\* a u32 is kept as its two 16-bit halves <<high, low>>, so that every value up
\* to u32::MAX and every product and sum of the encoders can be computed
\* without leaving the integers of the checker
HALF == 256 * 256
U32(n) == <<n \div HALF, n % HALF>>
U32_MAX == <<HALF - 1, HALF - 1>>
\* "as usize" of a count read from a slot: a count of 65536 or more cannot be
\* served by a slot of PAGE_SIZE bytes and runs off it as 65536 does
AsUsize(x) == IF x[1] = 0 THEN x[2] ELSE PAGE_SIZE

\* u32::to_le_bytes and u32::from_le_bytes
U32ToLe(x) == <<x[2] % 256, x[2] \div 256, x[1] % 256, x[1] \div 256>>
U32FromLe(bs) == <<bs[3] + 256 * bs[4], bs[1] + 256 * bs[2]>>

\* i32::to_le_bytes and i32::from_le_bytes (two's complement: a negative n has
\* the bits of n + 2^31 and the sign bit)
I32ToLe(n) ==
    LET m == IF n < 0 THEN (n + 2147483647) + 1 ELSE n
    IN  <<m % 256, (m \div 256) % 256, (m \div 65536) % 256,
          (m \div 16777216) + (IF n < 0 THEN 128 ELSE 0)>>
I32FromLe(bs) ==
    LET m == bs[1] + 256 * bs[2] + 65536 * bs[3] + 16777216 * (bs[4] % 128)
    IN  IF bs[4] >= 128 THEN (m - 2147483647) - 1 ELSE m

\* the results of a decoder: Ok((size, val)), Err(e), or an abort
Ok(size, val) == [tag |-> "Ok", size |-> size, val |-> val]
Err(e) == [tag |-> "Err", size |-> 0, val |-> e]
Abort == [tag |-> "Panic", size |-> 0, val |-> <<>>]

\* <i32 as Serializable>::to_bytes and from_bytes
I32ToBytes(n) == I32ToLe(n)
I32FromBytes(bs) ==
    IF Len(bs) < 4 THEN Err("InvalidByteLen") ELSE Ok(4, I32FromLe(SubSeq(bs, 1, 4)))

\* the bytes of a sequence of i32 (keys, values) and of u32 (children), one
\* after the other
RECURSIVE ConcatI32(_)
ConcatI32(s) == IF s = <<>> THEN <<>> ELSE I32ToBytes(s[1]) \o ConcatI32(Tail(s))
RECURSIVE ConcatU32(_)
ConcatU32(s) == IF s = <<>> THEN <<>> ELSE U32ToLe(s[1]) \o ConcatU32(Tail(s))

\* ---------------------------------------------------------------- pack_bits
\* bits[k] as 0 or 1, and 0 past the end ("if 8 * i + j >= bits.len() break")
BitAt(bits, k) == IF k < Len(bits) /\ At(bits, k) THEN 1 ELSE 0

\* a packing that puts the first bit of each byte in bit 0
PackBitsLsbFirst(bits) ==
    [i \in 1..((Len(bits) + 7) \div 8) |->
        LET o == 8 * (i - 1)
        IN  BitAt(bits, o) + 2 * BitAt(bits, o + 1) + 4 * BitAt(bits, o + 2)
            + 8 * BitAt(bits, o + 3) + 16 * BitAt(bits, o + 4) + 32 * BitAt(bits, o + 5)
            + 64 * BitAt(bits, o + 6) + 128 * BitAt(bits, o + 7)]

\* pack_bits: bs[i] ^= bit << (7 - j) for the bit 8 * i + j
PackBits(bits) ==
    [i \in 1..((Len(bits) + 7) \div 8) |->
        LET o == 8 * (i - 1)
        IN  128 * BitAt(bits, o) + 64 * BitAt(bits, o + 1) + 32 * BitAt(bits, o + 2)
            + 16 * BitAt(bits, o + 3) + 8 * BitAt(bits, o + 4) + 4 * BitAt(bits, o + 5)
            + 2 * BitAt(bits, o + 6) + BitAt(bits, o + 7)]

\* unpack_bits: ((b >> j) & 1) == 1 for j = 7..0 of every byte, truncated to len
UnpackBits(len, bs) ==
    LET all == [k \in 1..(8 * Len(bs)) |->
                   (bs[((k - 1) \div 8) + 1] \div (2 ^ (7 - ((k - 1) % 8)))) % 2 = 1]
    IN  IF len < Len(all) THEN SubSeq(all, 1, len) ELSE all

\* ---------------------------------------------------------------- page codec
\* the page slot is the array [0; PAGE_SIZE]; it is kept as the prefix written
\* so far, the bytes after it being zero
ByteAt(bs, i) == IF i < Len(bs) THEN bs[i + 1] ELSE 0
\* the slice bs[from..to] of the slot
Slice(bs, from, to) == [k \in 1..(to - from) |-> ByteAt(bs, from + k - 1)]

PTypeByte(ptype) == IF ptype = Interior THEN 1 ELSE 0

\* a sibling field whose sentinel is zero
SiblingBytesZero(sibling) == U32ToLe(IF IsSome(sibling) THEN Unwrap(sibling) ELSE U32(0))

\* "self.sibling.unwrap_or(u32::MAX)" as four bytes
SiblingBytes(sibling) == U32ToLe(IF IsSome(sibling) THEN Unwrap(sibling) ELSE U32_MAX)

\* a page of the tree with its ids as u32
AsU32Page(page) ==
    [page EXCEPT !.id = U32(page.id),
                 !.children = [j \in 1..Len(page.children) |-> U32(page.children[j])],
                 !.sibling = IF IsSome(page.sibling) THEN Some(U32(Unwrap(page.sibling)))
                             ELSE None]

\* Page::to_bytes: the bytes written to the slot, or an abort (a failed
\* assert_eq, or a write past the end of the slot)
PageToBytes(page) ==
    LET head == U32ToLe(page.id) \o <<PTypeByte(page.ptype)>> \o U32ToLe(U32(KEY_SIZE))
                \o U32ToLe(U32(Len(page.keys))) \o ConcatI32(page.keys)
        body == IF page.ptype = Interior
                THEN ConcatU32(page.children)
                ELSE SiblingBytes(page.sibling) \o PackBits(page.deleted)
                     \o ConcatI32(page.vals)
    IN  IF page.ptype = Leaf /\ (Len(page.deleted) # Len(page.vals)
                                 \/ Len(page.vals) # Len(page.keys))
        THEN [panic |-> TRUE, bs |-> <<>>]
        ELSE IF Len(head) + Len(body) > PAGE_SIZE THEN [panic |-> TRUE, bs |-> <<>>]
        ELSE [panic |-> FALSE, bs |-> head \o body]

\* the loop "for _ in 0..keys_len_usize" that reads the keys: K::from_bytes on
\* bs[i..(i + key_usize)], then i += size
RECURSIVE ReadKeys(_, _, _, _, _)
ReadKeys(bs, i, n, key_usize, keys) ==
    IF n = 0 THEN Ok(i, keys)
    ELSE IF i + key_usize > PAGE_SIZE THEN Abort
    ELSE LET r == I32FromBytes(Slice(bs, i, i + key_usize))
         IN  IF r.tag # "Ok" THEN r
             ELSE ReadKeys(bs, i + r.size, n - 1, key_usize, Append(keys, r.val))

\* the loop that reads the children of an interior page
RECURSIVE ReadChildren(_, _, _, _)
ReadChildren(bs, i, n, children) ==
    IF n = 0 THEN Ok(i, children)
    ELSE IF i + 4 > PAGE_SIZE THEN Abort
    ELSE ReadChildren(bs, i + 4, n - 1, Append(children, U32FromLe(Slice(bs, i, i + 4))))

\* the loop that reads the values of a leaf page: V::from_bytes on bs[i..]
RECURSIVE ReadVals(_, _, _, _)
ReadVals(bs, i, n, vals) ==
    IF n = 0 THEN Ok(i, vals)
    ELSE IF i > PAGE_SIZE THEN Abort
    ELSE IF PAGE_SIZE - i < 4 THEN Err("InvalidByteLen")
    ELSE ReadVals(bs, i + 4, n - 1, Append(vals, I32FromLe(Slice(bs, i, i + 4))))

\* Page::from_bytes on the slot
PageFromBytes(bs) ==
    LET id == U32FromLe(Slice(bs, 0, 4))
        ptype == IF ByteAt(bs, 4) = PTypeByte(Interior) THEN Interior ELSE Leaf
        key_size == AsUsize(U32FromLe(Slice(bs, 5, 9)))
        keys_len == AsUsize(U32FromLe(Slice(bs, 9, 13)))
        ks == ReadKeys(bs, 13, keys_len, key_size, <<>>)
        i == ks.size
        cs == ReadChildren(bs, i, keys_len, <<>>)
        sib_id == U32FromLe(Slice(bs, i, i + 4))
        del_len == (keys_len + 7) \div 8
        vs == ReadVals(bs, i + 4 + del_len, keys_len, <<>>)
    IN  IF ks.tag # "Ok" THEN ks
        ELSE IF ptype = Interior
        THEN IF cs.tag # "Ok" THEN cs
             ELSE Ok(cs.size, [id |-> id, ptype |-> ptype, deleted |-> <<>>, keys |-> ks.val,
                               vals |-> <<>>, children |-> cs.val, sibling |-> None])
        ELSE IF i + 4 + del_len > PAGE_SIZE THEN Abort
        ELSE IF vs.tag # "Ok" THEN vs
        ELSE Ok(vs.size, [id |-> id, ptype |-> ptype,
                          deleted |-> UnpackBits(keys_len, Slice(bs, i + 4, i + 4 + del_len)),
                          keys |-> ks.val, vals |-> vs.val, children |-> <<>>,
                          sibling |-> IF sib_id = U32_MAX THEN None ELSE Some(sib_id)])

\* ---------------------------------------------------------------- values
VARCHAR_MAX_LEN == 8192

\* u32 arithmetic on the halves, for a factor or divisor c of at most 10000:
\* the wrapped result, and whether the exact result left the u32 range
MulU32(x, c) ==
    LET lo == x[2] * c
        hi == x[1] * c + (lo \div HALF)
    IN  [over |-> hi >= HALF, v |-> <<hi % HALF, lo % HALF>>]
AddU32(x, y) ==
    LET lo == x[2] + y[2]
        hi == x[1] + y[1] + (lo \div HALF)
    IN  [over |-> hi >= HALF, v |-> <<hi % HALF, lo % HALF>>]
DivU32(x, c) == <<x[1] \div c, (((x[1] % c) * HALF) + x[2]) \div c>>
ModU32(x, c) == (((x[1] % c) * HALF) + x[2]) % c

\* what an encoder returns: the bytes, or an abort
Bytes(bs) == [panic |-> FALSE, bs |-> bs]
NoBytes == [panic |-> TRUE, bs |-> <<>>]

\* String::from_utf8 accepts the bytes: well-formed UTF-8
RECURSIVE ValidUtf8(_)
ValidUtf8(bs) ==
    LET n == Len(bs)
        cont(i) == i <= n /\ bs[i] >= 128 /\ bs[i] <= 191
    IN  IF n = 0 THEN TRUE
        ELSE IF bs[1] <= 127 THEN ValidUtf8(SubSeq(bs, 2, n))
        ELSE IF bs[1] >= 194 /\ bs[1] <= 223
        THEN cont(2) /\ ValidUtf8(SubSeq(bs, 3, n))
        ELSE IF bs[1] >= 224 /\ bs[1] <= 239
        THEN /\ cont(2) /\ cont(3)
             /\ (bs[1] = 224 => bs[2] >= 160)
             /\ (bs[1] = 237 => bs[2] <= 159)
             /\ ValidUtf8(SubSeq(bs, 4, n))
        ELSE IF bs[1] >= 240 /\ bs[1] <= 244
        THEN /\ cont(2) /\ cont(3) /\ cont(4)
             /\ (bs[1] = 240 => bs[2] >= 144)
             /\ (bs[1] = 244 => bs[2] <= 143)
             /\ ValidUtf8(SubSeq(bs, 5, n))
        ELSE FALSE

\* VarChar::new; the text is kept as its UTF-8 bytes
VarChar(text) == [val |-> text, max_len |-> VARCHAR_MAX_LEN]

\* <VarChar as Serializable>::to_bytes and from_bytes; bs[0..4] and bs[4..size]
\* abort when the input is shorter (the inputs here are shorter than 65536)
VarCharToBytes(vc) == Bytes(U32ToLe(U32(Len(vc.val))) \o vc.val)
VarCharFromBytes(bs) ==
    IF Len(bs) < 4 THEN Abort
    ELSE LET len == U32FromLe(SubSeq(bs, 1, 4))
         IN  IF len[1] # 0 \/ 4 + len[2] > Len(bs) THEN Abort
             ELSE IF ~ValidUtf8(SubSeq(bs, 5, 4 + len[2])) THEN Err("InvalidUtf8")
             ELSE Ok(4 + len[2], VarChar(SubSeq(bs, 5, 4 + len[2])))

\* a packing of the date with the factors 1000 and 100
PackLowFactor(a, m, c) ==
    LET x == MulU32(a, 1000)
        y == MulU32(m, 100)
        s == AddU32(x.v, y.v)
        t == AddU32(s.v, c)
    IN  [over |-> x.over \/ y.over \/ s.over \/ t.over, v |-> t.v]

\* 10000 * a + 100 * m + c in u32
Pack3(a, m, c) ==
    LET x == MulU32(a, 10000)
        y == MulU32(m, 100)
        s == AddU32(x.v, y.v)
        t == AddU32(s.v, c)
    IN  [over |-> x.over \/ y.over \/ s.over \/ t.over, v |-> t.v]

\* <DateTime as Serializable>::to_bytes: an overflow of the u32 arithmetic
\* aborts in a build with overflow checks and wraps in a build without
DateTimeToBytes(dt) ==
    LET date_enc == Pack3(dt.year, dt.month, dt.day)
        time_enc == Pack3(dt.hour, dt.minute, dt.second)
        bs == Bytes(U32ToLe(date_enc.v) \o U32ToLe(time_enc.v))
    IN  IF date_enc.over \/ time_enc.over THEN {NoBytes, bs} ELSE {bs}

\* <DateTime as Serializable>::from_bytes
DateTimeFromBytes(bs) ==
    IF Len(bs) < 8 THEN Err("InvalidByteLen")
    ELSE LET date == U32FromLe(SubSeq(bs, 1, 4))
             time == U32FromLe(SubSeq(bs, 5, 8))
         IN  Ok(8, [year |-> DivU32(date, 10000),
                    month |-> U32(ModU32(date, 10000) \div 100),
                    day |-> U32(ModU32(date, 10000) % 100),
                    hour |-> DivU32(time, 10000),
                    minute |-> U32(ModU32(time, 10000) \div 100),
                    second |-> U32(ModU32(time, 10000) % 100)])

\* enum Value and "self.vtype() as usize"; the payload of every variant is a record
IntValue(n) == [type |-> "Int", v |-> [n |-> n]]
VarCharValue(vc) == [type |-> "VarChar", v |-> vc]
DateTimeValue(dt) == [type |-> "DateTime", v |-> dt]
TypeId(type) == IF type = "Int" THEN 0 ELSE IF type = "VarChar" THEN 1 ELSE 2

\* <Value as Serializable>::to_bytes: the type id, then the bytes of the value
ValueToBytes(val) ==
    LET inner == IF val.type = "Int" THEN {Bytes(I32ToBytes(val.v.n))}
                 ELSE IF val.type = "VarChar" THEN {VarCharToBytes(val.v)}
                 ELSE DateTimeToBytes(val.v)
    IN  {IF o.panic THEN NoBytes ELSE Bytes(<<TypeId(val.type)>> \o o.bs) : o \in inner}

\* a tagged result that counts the bytes of the value without the type id
TaggedSameSize(r, type) ==
    IF r.tag = "Ok"
    THEN Ok(r.size, [type |-> type, v |-> IF type = "Int" THEN [n |-> r.val] ELSE r.val])
    ELSE r

\* "Ok((size + 1, val))" of Value::from_bytes, errors passed on by "?"
Tagged(r, type) ==
    IF r.tag = "Ok"
    THEN Ok(r.size + 1, [type |-> type, v |-> IF type = "Int" THEN [n |-> r.val] ELSE r.val])
    ELSE r

\* <Value as Serializable>::from_bytes: bs[0] aborts on an empty input and
\* Type::try_from on a type id that is none of the three
ValueFromBytes(bs) ==
    IF Len(bs) < 1 THEN Abort
    ELSE IF bs[1] = TypeId("Int") THEN Tagged(I32FromBytes(Tail(bs)), "Int")
    ELSE IF bs[1] = TypeId("VarChar") THEN Tagged(VarCharFromBytes(Tail(bs)), "VarChar")
    ELSE IF bs[1] = TypeId("DateTime") THEN Tagged(DateTimeFromBytes(Tail(bs)), "DateTime")
    ELSE Abort

\* <Vec<Value> as Serializable>::to_bytes
RECURSIVE RowBody(_)
RowBody(row) ==
    IF row = <<>> THEN {Bytes(<<>>)}
    ELSE {IF a.panic \/ r.panic THEN NoBytes ELSE Bytes(a.bs \o r.bs) :
              a \in ValueToBytes(row[1]), r \in RowBody(Tail(row))}
RowToBytes(row) ==
    {IF o.panic THEN NoBytes ELSE Bytes(U32ToLe(U32(Len(row))) \o o.bs) : o \in RowBody(row)}

\* the loop of <Vec<Value> as Serializable>::from_bytes
RECURSIVE ReadValues(_, _, _, _)
ReadValues(bs, i, n, vs) ==
    IF n = 0 THEN Ok(i, vs)
    ELSE IF i > Len(bs) THEN Abort
    ELSE LET r == ValueFromBytes(SubSeq(bs, i + 1, Len(bs)))
         IN  IF r.tag # "Ok" THEN r
             ELSE ReadValues(bs, i + r.size, n - 1, Append(vs, r.val))

\* <Vec<Value> as Serializable>::from_bytes
RowFromBytes(bs) ==
    IF Len(bs) < 4 THEN Abort
    ELSE ReadValues(bs, 4, AsUsize(U32FromLe(SubSeq(bs, 1, 4))), <<>>)

\* ---------------------------------------------------------------- codec runs
\* a tree that is built and not used
NoTree ==
    /\ b = 3 /\ is_unique = TRUE /\ depth = 0 /\ root_id = 0 /\ next_id = 1
    /\ pager = <<EmptyLeaf(0)>> /\ status = "ok" /\ watch = 1 /\ hist = <<>>
    /\ wdel = FALSE /\ phase = "mix"

\* leaf pages of n entries: keys and values of one and several bytes, of both
\* signs, every pattern of tombstone bits, sibling absent or present
LeafPages ==
    {[id |-> id, ptype |-> Leaf, deleted |-> d,
      keys |-> [j \in 1..Len(d) |-> k0 + 300 * j],
      vals |-> [j \in 1..Len(d) |-> 1 - (k0 + 300 * j)],
      children |-> <<>>, sibling |-> sib] :
        id \in {U32(1310), U32_MAX}, k0 \in {-70000, 44},
        sib \in {None, Some(U32(0)), Some(U32(1311)), Some(U32_MAX)},
        d \in UNION {[1..n -> BOOLEAN] : n \in 0..MaxPageLen}}

BitSeqs == UNION {[1..n -> BOOLEAN] : n \in 0..MaxBits}

\* Page::to_bytes on the input page
ToBytesPage ==
    /\ input # <<>> /\ input.kind = "page" /\ bytes = None
    /\ bytes' = Some(PageToBytes(input.val))
    /\ UNCHANGED <<tree, stores, input, output>>

\* Page::from_bytes on the slot that to_bytes returned
FromBytesPage ==
    /\ input # <<>> /\ input.kind = "page" /\ bytes # None /\ output = None
    /\ ~Unwrap(bytes).panic
    /\ output' = Some(PageFromBytes(Unwrap(bytes).bs))
    /\ UNCHANGED <<tree, stores, input, bytes>>

\* pack_bits on the input bits
Pack ==
    /\ input # <<>> /\ input.kind = "bits" /\ bytes = None
    /\ bytes' = Some(PackBits(input.val))
    /\ UNCHANGED <<tree, stores, input, output>>

\* unpack_bits on the packed bytes, with the length of the input
Unpack ==
    /\ input # <<>> /\ input.kind = "bits" /\ bytes # None /\ output = None
    /\ output' = Some(UnpackBits(Len(input.val), Unwrap(bytes)))
    /\ UNCHANGED <<tree, stores, input, bytes>>

InitCodec ==
    /\ NoTree /\ NoStores /\ bytes = None /\ output = None
    /\ \/ \E p \in LeafPages : input = [kind |-> "page", val |-> p]
       \/ \E bits \in BitSeqs : input = [kind |-> "bits", val |-> bits]

NextCodec ==
    \/ ToBytesPage
    \/ FromBytesPage
    \/ Pack
    \/ Unpack

SpecCodec == InitCodec /\ [][NextCodec]_vars

\* ---------------------------------------------------------------- value runs
Ints == {0, 163, -1, -70000, 2147483647, (-2147483647) - 1}

\* texts of up to MaxText characters of one, two and three bytes
Chars == {<<97>>, <<195, 169>>, <<229, 173, 163>>}
RECURSIVE TextsOf(_)
TextsOf(n) ==
    IF n = 0 THEN {<<>>} ELSE TextsOf(n - 1) \cup {t \o c : t \in TextsOf(n - 1), c \in Chars}
Texts == TextsOf(MaxText)

\* date/times with fields at, below and above what the packing can hold
DateTimes ==
    [year : {U32(0), U32(2024), U32(429495), U32(429496), U32_MAX},
     month : {U32(0), U32(8), U32(99), U32(100)},
     day : {U32(0), U32(13), U32(99), U32(100)},
     hour : {U32(0), U32(21), U32(429497)},
     minute : {U32(6), U32(99), U32(100)},
     second : {U32(0), U32(59), U32(65536)}]

\* the bytes that follow an encoding in the input of a decoder
Rests == {<<>>, <<7>>, <<0, 1, 0, 0, 0>>}

\* the values of the rows
RowValues ==
    {IntValue(163), IntValue(-1), VarCharValue(VarChar(<<>>)),
     VarCharValue(VarChar(<<229, 173, 163>>)),
     DateTimeValue([year |-> U32(2024), month |-> U32(8), day |-> U32(13),
                    hour |-> U32(21), minute |-> U32(6), second |-> U32(0)]),
     DateTimeValue([year |-> U32(2024), month |-> U32(100), day |-> U32(0),
                    hour |-> U32(0), minute |-> U32(0), second |-> U32(0)])}
Rows == UNION {[1..n -> RowValues] : n \in 0..MaxRow}

\* inputs of VarChar::from_bytes: a length prefix, whole or cut short, and up
\* to MaxRaw payload bytes, well-formed or not
RawBytes ==
    LET prefixes == {U32ToLe(U32(n)) : n \in 0..(MaxRaw + 1)}
                    \cup {<<0, 0, 1, 0>>, <<255, 255, 255, 255>>}
        payloads == UNION {[1..n -> {97, 128, 195, 169}] : n \in 0..MaxRaw}
    IN  {SubSeq(pre, 1, n) : pre \in prefixes, n \in 0..3}
        \cup {pre \o pay : pre \in prefixes, pay \in payloads}

\* the input of the decoder: the bytes of the encoder and the bytes that follow
Encoded == Unwrap(bytes).bs \o input.rest
CanDecode(kind) ==
    /\ input # <<>> /\ input.kind = kind /\ bytes # None /\ output = None
    /\ ~Unwrap(bytes).panic

ToBytesI32 ==
    /\ input # <<>> /\ input.kind = "int" /\ bytes = None
    /\ bytes' = Some(Bytes(I32ToBytes(input.val)))
    /\ UNCHANGED <<tree, stores, input, output>>
FromBytesI32 ==
    /\ CanDecode("int")
    /\ output' = Some(I32FromBytes(Encoded))
    /\ UNCHANGED <<tree, stores, input, bytes>>

ToBytesVarChar ==
    /\ input # <<>> /\ input.kind = "text" /\ bytes = None
    /\ bytes' = Some(VarCharToBytes(input.val))
    /\ UNCHANGED <<tree, stores, input, output>>
\* VarChar::from_bytes on an encoding, or on raw bytes
FromBytesVarChar ==
    /\ \/ CanDecode("text")
       \/ CanDecode("raw")
    /\ output' = Some(VarCharFromBytes(Encoded))
    /\ UNCHANGED <<tree, stores, input, bytes>>

ToBytesDateTime ==
    /\ input # <<>> /\ input.kind = "datetime" /\ bytes = None
    /\ \E o \in DateTimeToBytes(input.val) : bytes' = Some(o)
    /\ UNCHANGED <<tree, stores, input, output>>
FromBytesDateTime ==
    /\ CanDecode("datetime")
    /\ output' = Some(DateTimeFromBytes(Encoded))
    /\ UNCHANGED <<tree, stores, input, bytes>>

ToBytesValue ==
    /\ input # <<>> /\ input.kind = "value" /\ bytes = None
    /\ \E o \in ValueToBytes(input.val) : bytes' = Some(o)
    /\ UNCHANGED <<tree, stores, input, output>>
FromBytesValue ==
    /\ CanDecode("value")
    /\ output' = Some(ValueFromBytes(Encoded))
    /\ UNCHANGED <<tree, stores, input, bytes>>

ToBytesRow ==
    /\ input # <<>> /\ input.kind = "row" /\ bytes = None
    /\ \E o \in RowToBytes(input.val) : bytes' = Some(o)
    /\ UNCHANGED <<tree, stores, input, output>>
FromBytesRow ==
    /\ CanDecode("row")
    /\ output' = Some(RowFromBytes(Encoded))
    /\ UNCHANGED <<tree, stores, input, bytes>>

InitValues ==
    /\ NoTree /\ NoStores /\ output = None
    /\ \/ /\ bytes = None
          /\ \E rest \in Rests :
                \/ \E n \in Ints : input = [kind |-> "int", val |-> n, rest |-> rest]
                \/ \E t \in Texts : input = [kind |-> "text", val |-> VarChar(t), rest |-> rest]
                \/ \E dt \in DateTimes : input = [kind |-> "datetime", val |-> dt, rest |-> rest]
                \/ \E n \in Ints : input = [kind |-> "value", val |-> IntValue(n), rest |-> rest]
                \/ \E t \in Texts :
                      input = [kind |-> "value", val |-> VarCharValue(VarChar(t)), rest |-> rest]
                \/ \E dt \in DateTimes :
                      input = [kind |-> "value", val |-> DateTimeValue(dt), rest |-> rest]
                \/ \E row \in Rows : input = [kind |-> "row", val |-> row, rest |-> rest]
       \/ \E raw \in RawBytes :
             /\ input = [kind |-> "raw", val |-> raw, rest |-> <<>>]
             /\ bytes = Some(Bytes(raw))

NextValues ==
    \/ ToBytesI32
    \/ FromBytesI32
    \/ ToBytesVarChar
    \/ FromBytesVarChar
    \/ ToBytesDateTime
    \/ FromBytesDateTime
    \/ ToBytesValue
    \/ FromBytesValue
    \/ ToBytesRow
    \/ FromBytesRow

SpecValues == InitValues /\ [][NextValues]_vars

\* ---------------------------------------------------------------- page stores
\* Result<&Page, PageNotFoundError>
PageOk(page) == [found |-> TRUE, page |-> page]
PageNotFound == [found |-> FALSE, page |-> <<>>]

\* MemPager::read_page
MemRead(pages, id) == IF HasPage(pages, id) THEN PageOk(ReadPage(pages, id)) ELSE PageNotFound

\* a page decoded from the file, with its ids as the integers of the tree
FromU32Page(page) ==
    [page EXCEPT !.id = page.id[1] * HALF + page.id[2],
                 !.children = [j \in 1..Len(page.children) |->
                                  page.children[j][1] * HALF + page.children[j][2]],
                 !.sibling = IF IsSome(page.sibling)
                             THEN Some(Unwrap(page.sibling)[1] * HALF + Unwrap(page.sibling)[2])
                             ELSE None]

\* a read that never looks into the write ahead log
FileReadCacheOnly(f, id) ==
    [panic |-> FALSE, fp |-> f,
     res |-> IF HasPage(f.cache, id) THEN PageOk(ReadPage(f.cache, id)) ELSE PageNotFound]

\* FilePager::read_page: the write ahead log, then the cache, then the file;
\* the pager after the call (a page read from the file enters the cache) and
\* the result, or an abort
FileRead(f, id) ==
    LET in_wal == {i \in 1..Len(f.wal) : f.wal[i].id = id}
        in_offsets == {i \in 1..Len(f.offsets) : f.offsets[i][1] = id}
        ofs == f.offsets[MinOf(in_offsets)][2]
        buf == IF ofs \in DOMAIN f.file THEN f.file[ofs] ELSE <<>>
        dec == PageFromBytes(buf)
        cache_idx == Cardinality({i \in 1..Len(f.cache) : f.cache[i].id < id})
    IN  IF in_wal # {} THEN [panic |-> FALSE, fp |-> f, res |-> PageOk(f.wal[MinOf(in_wal)])]
        ELSE IF HasPage(f.cache, id)
        THEN [panic |-> FALSE, fp |-> f, res |-> PageOk(ReadPage(f.cache, id))]
        ELSE IF in_offsets = {} THEN [panic |-> FALSE, fp |-> f, res |-> PageNotFound]
        ELSE IF dec.tag # "Ok" THEN [panic |-> TRUE, fp |-> f, res |-> PageNotFound]
        ELSE [panic |-> FALSE,
              fp |-> [f EXCEPT !.cache = InsertAt(f.cache, cache_idx, FromU32Page(dec.val))],
              res |-> PageOk(FromU32Page(dec.val))]

\* a write that appends to the log without looking for the id
FileWriteAppend(f, page) == [f EXCEPT !.wal = Append(f.wal, page)]

\* FilePager::write_page: replace the page in the write ahead log, or push it;
\* the branch taken when the log is longer than wal_max holds a comment only
FileWrite(f, page) ==
    LET g == IF \E i \in 1..Len(f.wal) : f.wal[i].id = page.id
             THEN [f EXCEPT !.wal = [i \in 1..Len(f.wal) |->
                                        IF i = MinOf({j \in 1..Len(f.wal) : f.wal[j].id = page.id})
                                        THEN page ELSE f.wal[i]]]
             ELSE [f EXCEPT !.wal = Append(f.wal, page)]
    IN  IF Len(g.wal) > g.wal_max THEN g ELSE g

\* the pages written: leaves of each id, empty or with one entry
StorePages ==
    {[EmptyLeaf(id) EXCEPT !.keys = ks, !.vals = ks, !.deleted = [j \in 1..Len(ks) |-> FALSE]] :
        id \in 0..MaxPid, ks \in {<<>>, <<1>>}}

\* the history after a write: the page is the last one written under its id
Remember(map, page) ==
    [id \in DOMAIN map \cup {page.id} |-> IF id = page.id THEN page ELSE map[id]]

WriteMem(page) ==
    /\ pager' = WritePage(pager, page)
    /\ stored' = [stored EXCEPT !.mem = Remember(stored.mem, page)]
    /\ output' = None
    /\ UNCHANGED <<b, is_unique, depth, root_id, next_id, status, watch, hist, wdel, phase,
                   input, bytes, fp>>

ReadMem(id) ==
    /\ output' = Some([store |-> "mem", id |-> id, res |-> MemRead(pager, id)])
    /\ UNCHANGED <<tree, input, bytes, stores>>

WriteFile(page) ==
    /\ fp' = FileWrite(fp, page)
    /\ stored' = [stored EXCEPT !.file = Remember(stored.file, page)]
    /\ output' = None
    /\ UNCHANGED <<tree, input, bytes>>

ReadFile(id) ==
    /\ status = "ok"
    /\ LET r == FileRead(fp, id)
       IN  /\ fp' = r.fp
           /\ status' = IF r.panic THEN "panic" ELSE "ok"
           /\ output' = Some([store |-> "file", id |-> id, res |-> r.res])
    /\ UNCHANGED <<b, is_unique, depth, root_id, next_id, pager, watch, hist, wdel, phase,
                   input, bytes, stored>>

\* a MemPager as BTree::new builds it, and a FilePager with nothing written
InitStores ==
    /\ NoTree /\ NoCodec
    /\ \E w \in 0..MaxWal :
          fp = [wal |-> <<>>, wal_max |-> w, cache |-> <<>>, offsets |-> <<>>, file |-> <<>>]
    /\ stored = [mem |-> Remember(<<>>, EmptyLeaf(0)), file |-> <<>>]

NextStores ==
    \/ \E page \in StorePages : WriteMem(page)
    \/ \E id \in 0..(MaxPid + 1) : ReadMem(id)
    \/ \E page \in StorePages : WriteFile(page)
    \/ \E id \in 0..(MaxPid + 1) : ReadFile(id)

SpecStores == InitStores /\ [][NextStores]_vars

\* ---- the two pagers given the same calls ----

\* Pager::write_page on a MemPager and on a FilePager
WriteBoth(page) ==
    /\ pager' = WritePage(pager, page)
    /\ fp' = FileWrite(fp, page)
    /\ stored' = [mem |-> Remember(stored.mem, page), file |-> Remember(stored.file, page)]
    /\ output' = None
    /\ UNCHANGED <<b, is_unique, depth, root_id, next_id, status, watch, hist, wdel, phase,
                   input, bytes>>

\* Pager::read_page on both, the two results kept side by side
ReadBoth(id) ==
    /\ status = "ok"
    /\ LET r == FileRead(fp, id)
       IN  /\ fp' = r.fp
           /\ status' = IF r.panic THEN "panic" ELSE "ok"
           /\ output' = Some([store |-> "both", id |-> id, res |-> MemRead(pager, id),
                              file |-> r.res])
    /\ UNCHANGED <<b, is_unique, depth, root_id, next_id, pager, watch, hist, wdel, phase,
                   input, bytes, stored>>

\* Pager::commit on both: neither pager does anything
CommitBoth ==
    /\ output' = None
    /\ UNCHANGED <<tree, input, bytes, stores>>

\* a MemPager with no page and a FilePager with an empty write ahead log,
\* cache and offset table
InitPagers ==
    /\ NoCodec
    /\ \E w \in 0..MaxWal :
          fp = [wal |-> <<>>, wal_max |-> w, cache |-> <<>>, offsets |-> <<>>, file |-> <<>>]
    /\ stored = [mem |-> <<>>, file |-> <<>>]
    /\ b = 3 /\ is_unique = TRUE /\ depth = 0 /\ root_id = 0 /\ next_id = 1
    /\ pager = <<>> /\ status = "ok" /\ watch = 1 /\ hist = <<>> /\ wdel = FALSE
    /\ phase = "mix"

NextPagers ==
    \/ \E page \in StorePages : WriteBoth(page)
    \/ \E id \in 0..(MaxPid + 1) : ReadBoth(id)
    \/ CommitBoth

SpecPagers == InitPagers /\ [][NextPagers]_vars

\* ================================================================ claims
Range(s) == {s[i] : i \in 1..Len(s)}
\* the values a find_range result pairs with the key, in the order emitted
RECURSIVE ValuesOf(_, _)
ValuesOf(kvs, key) ==
    IF kvs = <<>> THEN <<>>
    ELSE (IF kvs[1][1] = key THEN <<kvs[1][2]>> ELSE <<>>) \o ValuesOf(Tail(kvs), key)
\* how often the value occurs in the sequence
Count(s, v) == Cardinality({i \in 1..Len(s) : s[i] = v})
SameBag(s1, s2) == \A v \in Range(s1) \cup Range(s2) : Count(s1, v) = Count(s2, v)
\* the bounds a range scan is called with
Bounds == 0..(MaxKey + 1)
\* the leaf pages of the pager that hold the key
LeavesWith(key) ==
    {i \in 1..Len(pager) : pager[i].ptype = Leaf /\ key \in Range(pager[i].keys)}

\* C1: after insert(k, v) returned Ok with no delete(k) since, find(k) returns
\* a value inserted under k, and exactly v on a unique tree.
C1_PointConsistency ==
    (status = "ok" /\ hist # <<>>) =>
        \A r \in Find(watch) :
            /\ ~r.panic
            /\ IsSome(r.val)
            /\ Unwrap(r.val) \in Range(hist)
            /\ is_unique => \A i \in 1..Len(hist) : Unwrap(r.val) = hist[i]

\* C2: after delete(k) returned Ok and until the next insert of k, find(k)
\* returns None and no find_range over k emits a pair with key k.
C2_DeleteConsistency ==
    (status = "ok" /\ wdel) =>
        /\ \A r \in Find(watch) : ~r.panic /\ r.val = None
        /\ \A min \in Bounds : \A max \in Bounds :
              (min <= watch /\ watch <= max) =>
                  \A r \in FindRange(min, max) :
                      ~r.panic /\ ~r.hang /\ ValuesOf(r.kvs, watch) = <<>>

\* the case of C2: the deleted key lies in several sibling leaves
C2_Witness == status = "ok" /\ wdel /\ Cardinality(LeavesWith(watch)) >= 2

\* C3: on a unique tree insert(k, v2) returns DuplicateKey while an entry of k
\* is live; after delete(k) returned Ok the next insert(k, v2) returns Ok and
\* find(k) then returns v2.
C3_UniquenessReinsert ==
    (status = "ok" /\ is_unique) =>
        \A v2 \in Vals : \A o \in InsertOutcomes(watch, v2) :
            /\ hist # <<>> => o.res = "DuplicateKey"
            /\ wdel => /\ o.res = "Ok"
                       /\ FindT(o.t, watch) = {[panic |-> FALSE, val |-> Some(v2)]}

\* C4: find_range(min, max) returns exactly the live entries with
\* min <= key <= max, in ascending key order, none of them twice.
C4_RangeCorrectness ==
    status = "ok" =>
        \A min \in Bounds : \A max \in Bounds :
            min <= max =>
                \A r \in FindRange(min, max) :
                    /\ ~r.panic /\ ~r.hang
                    /\ \A i \in 1..Len(r.kvs) : min <= r.kvs[i][1] /\ r.kvs[i][1] <= max
                    /\ \A i \in 1..(Len(r.kvs) - 1) : r.kvs[i][1] <= r.kvs[i + 1][1]
                    /\ SameBag(ValuesOf(r.kvs, watch),
                               IF min <= watch /\ watch <= max THEN hist ELSE <<>>)

\* C5: in a non-unique tree the entries inserted with one key are all kept
\* and find_range emits them in the order of their insertion.
C5_InsertionOrder ==
    (status = "ok" /\ ~is_unique) =>
        \A r \in FindRange(watch, watch) : ValuesOf(r.kvs, watch) = hist

\* C6: after every completed insert or delete every page of the pager, leaf
\* or interior, root included, has fewer than b keys.
C6_StructuralBound ==
    status = "ok" => \A i \in 1..Len(pager) : Len(pager[i].keys) < b

\* the case of C6: a split went up through an interior page and the root
C6_Witness == status = "ok" /\ depth >= 2

\* the leftmost leaf: children[0] from the root, depth times
RECURSIVE Leftmost(_, _)
Leftmost(id, d) ==
    IF d = 0 THEN id ELSE Leftmost(At(ReadPage(pager, id).children, 0), d - 1)
\* the ids met by following right-sibling pointers from id, at most fuel of them
RECURSIVE Chain(_, _)
Chain(id, fuel) ==
    IF fuel = 0 \/ ~HasPage(pager, id) THEN <<>>
    ELSE <<id>> \o (IF IsSome(ReadPage(pager, id).sibling)
                    THEN Chain(Unwrap(ReadPage(pager, id).sibling), fuel - 1)
                    ELSE <<>>)
\* the ids of the pages d levels below the page id
RECURSIVE Below(_, _)
Below(id, d) ==
    IF d = 0 THEN {id}
    ELSE UNION {Below(c, d - 1) : c \in Range(ReadPage(pager, id).children)}
\* the keys of the pages of a sequence of ids, in the order of the walk
RECURSIVE KeysAlong(_)
KeysAlong(ids) ==
    IF ids = <<>> THEN <<>> ELSE ReadPage(pager, ids[1]).keys \o KeysAlong(Tail(ids))

\* C7: the walk along right-sibling pointers from the leftmost leaf visits every
\* leaf of the tree exactly once, ends at a leaf without sibling, and meets the
\* keys in non-decreasing order (strictly increasing in a unique tree).
C7_LeafChain ==
    status = "ok" =>
        LET chain == Chain(Leftmost(root_id, depth), Len(pager) + 1)
            keys == KeysAlong(chain)
        IN  /\ Len(chain) <= Len(pager)
            /\ \A i \in 1..Len(chain) : \A j \in 1..Len(chain) :
                  chain[i] = chain[j] => i = j
            /\ Range(chain) = Below(root_id, depth)
            /\ \A i \in 1..Len(chain) : ReadPage(pager, chain[i]).ptype = Leaf
            /\ ~IsSome(ReadPage(pager, chain[Len(chain)]).sibling)
            /\ \A i \in 1..(Len(keys) - 1) :
                  IF is_unique THEN keys[i] < keys[i + 1] ELSE keys[i] <= keys[i + 1]

\* the case of C7: leaves under two interior pages
C7_Witness == status = "ok" /\ depth >= 2 /\ Cardinality(Below(root_id, depth)) >= 4

\* C8: after inserts only, find(k) returns a value inserted with k for every
\* inserted key k (exactly the value inserted on a unique tree) and None for
\* every key never inserted.
C8_InsertOnly ==
    (status = "ok" /\ phase = "ins") =>
        \A r \in Find(watch) :
            /\ ~r.panic
            /\ hist = <<>> => r.val = None
            /\ hist # <<>> => /\ IsSome(r.val)
                              /\ Unwrap(r.val) \in Range(hist)
                              /\ is_unique => Unwrap(r.val) = hist[1]

\* the case of C8: the key was inserted and the tree has split twice in height
C8_Witness == status = "ok" /\ phase = "ins" /\ hist # <<>> /\ depth >= 2

\* C9: on a unique tree filled with distinct keys and then deleted from, find
\* returns the inserted value for every key not deleted and None for the others.
C9_DeleteFrame ==
    (status = "ok" /\ is_unique) =>
        Find(watch) = {[panic |-> FALSE, val |-> IF hist = <<>> THEN None ELSE Some(hist[1])]}

\* the case of C9: the watched key is kept and another key of its leaf is deleted
C9_Witness ==
    /\ status = "ok" /\ is_unique /\ phase = "del" /\ hist # <<>> /\ depth >= 1
    /\ \E i \in LeavesWith(watch) : \E j \in 1..Len(pager[i].deleted) : pager[i].deleted[j]

\* tombstone bits that are set in the pages after and clear in the pages before
NewlyTombstoned(before, after) ==
    LET new(i) == {j \in 1..Len(before[i].deleted) :
                      ~before[i].deleted[j] /\ after[i].deleted[j]}
        RECURSIVE Sum(_)
        Sum(i) == IF i = 0 THEN 0 ELSE Cardinality(new(i)) + Sum(i - 1)
    IN  Sum(Len(before))

\* C10: delete(k) returns Ok(n) with n the number of entries of k whose tombstone
\* bit the call changed from false to true, and KeyNotFound when that is zero.
C10_CountsNewTombstones ==
    status = "ok" =>
        \A k \in Keys :
            LET o == DeleteOutcome(k)
            IN  (~o.panic /\ ~o.hang) => o.n = NewlyTombstoned(pager, o.pages)

\* C11: a delete(k) made when no leaf entry, live or tombstoned, has key k
\* returns KeyNotFound and leaves the pager, depth, root id and next id as
\* they were.
C11_KeyNotFound ==
    [][\A k \in Keys :
          (LeavesWith(k) = {} /\ Delete(k)) =>
              /\ status' = "ok"
              /\ DeleteResult(DeleteOutcome(k).n) = "KeyNotFound"
              /\ UNCHANGED <<pager, depth, root_id, next_id>>]_vars

\* the case of C11: a key held by no leaf whose search runs off the end of its
\* leaf and goes on in the right sibling
C11_Witness ==
    /\ status = "ok" /\ depth >= 1
    /\ \E k \in KeysOf(is_unique) :
          /\ LeavesWith(k) = {}
          /\ LET leaf == ReadPage(pager, FindLeaf(Tree, k).id)
             IN  PageFind(leaf, k) = Len(leaf.keys) /\ IsSome(leaf.sibling)

\* the key has an entry with tombstone bit false in some leaf
LiveIn(pages, key) ==
    \E i \in 1..Len(pages) : \E j \in 1..Len(pages[i].keys) :
        pages[i].ptype = Leaf /\ pages[i].keys[j] = key /\ ~pages[i].deleted[j]

\* C12: insert returns DuplicateKey only on a unique tree and only for a key
\* that has an entry with tombstone bit false; an insert that fails leaves the
\* pager and the tree fields as they were; insert on a non-unique tree always
\* returns Ok.
C12_DuplicateKey ==
    status = "ok" =>
        \A k \in Keys : \A v \in Vals : \A o \in InsertOutcomes(k, v) :
            /\ o.res \in {"Ok", "DuplicateKey"}
            /\ o.res = "DuplicateKey" => is_unique /\ LiveIn(pager, k) /\ o.t = Tree
            /\ ~is_unique => o.res = "Ok"

\* the case of C12: a unique tree of several leaves, one of them holding a
\* tombstone and a live key whose insert is refused
C12_Witness ==
    /\ status = "ok" /\ is_unique /\ depth >= 1
    /\ \E k \in Keys : \E i \in LeavesWith(k) :
          /\ \E j \in 1..Len(pager[i].deleted) : pager[i].deleted[j]
          /\ \E o \in InsertOutcomes(k, 10) : o.res = "DuplicateKey"

\* C13: no find, find_range, insert or delete on a tree reached by any sequence
\* of operations reads a page id that was never written or indexes a children
\* sequence out of bounds: no call aborts.
C13_NoMissingPage ==
    /\ status = "ok"
    /\ \A k \in Keys : \A r \in Find(k) : ~r.panic
    /\ \A min \in Bounds : \A max \in Bounds : \A r \in FindRange(min, max) : ~r.panic
    /\ \A k \in Keys : ~FindLeaf(Tree, k).panic /\ ~DeleteOutcome(k).panic
    /\ \A k \in Keys : \A v \in Vals : \A o \in InsertOutcomes(k, v) : ~o.t.panic

\* the case of C13: descents through two levels of interior pages, one of them
\* the left half of a split interior page, and a tombstone in a leaf
C13_Witness ==
    /\ status = "ok" /\ depth >= 2
    /\ \E i \in 1..Len(pager) :
          pager[i].ptype = Interior /\ Len(pager[i].children) = Len(pager[i].keys)
    /\ \E i \in 1..Len(pager) : \E j \in 1..Len(pager[i].deleted) : pager[i].deleted[j]

\* C14 as claimed: for every leaf page, sibling present or absent, the decoded
\* encoding has the same id, kind, keys, values, tombstone bits and sibling.
C14_LeafRoundTripAny ==
    (input # <<>> /\ input.kind = "page" /\ input.val.ptype = Leaf) =>
        /\ bytes # None => ~Unwrap(bytes).panic
        /\ output # None =>
              /\ Unwrap(output).tag = "Ok"
              /\ LET p == input.val
                     q == Unwrap(output).val
                 IN  /\ q.id = p.id /\ q.ptype = p.ptype /\ q.keys = p.keys
                     /\ q.vals = p.vals /\ q.deleted = p.deleted /\ q.sibling = p.sibling

\* C14: for every leaf page with as many values and tombstone bits as keys,
\* whose encoding fits the slot and whose sibling, when present, is not the
\* sentinel 0xFFFFFFFF, the decoded encoding has the same id, kind, keys,
\* values, tombstone bits and sibling.
C14_LeafRoundTrip ==
    (/\ input # <<>> /\ input.kind = "page" /\ input.val.ptype = Leaf
     /\ Len(input.val.vals) = Len(input.val.keys)
     /\ Len(input.val.deleted) = Len(input.val.keys)
     /\ 17 + 8 * Len(input.val.keys) + (Len(input.val.keys) + 7) \div 8 <= PAGE_SIZE
     /\ input.val.sibling # Some(U32_MAX)) =>
        /\ bytes # None => ~Unwrap(bytes).panic
        /\ output # None =>
              /\ Unwrap(output).tag = "Ok"
              /\ LET p == input.val
                     q == Unwrap(output).val
                 IN  /\ q.id = p.id /\ q.ptype = p.ptype /\ q.keys = p.keys
                     /\ q.vals = p.vals /\ q.deleted = p.deleted /\ q.sibling = p.sibling

\* the case of C14: a decoded leaf with a sibling, negative keys and tombstone
\* bits that fill more than one byte, the last of them set
C14_Witness ==
    /\ input # <<>> /\ input.kind = "page" /\ output # None
    /\ IsSome(input.val.sibling) /\ input.val.sibling # Some(U32_MAX)
    /\ Len(input.val.deleted) > 8 /\ input.val.deleted[Len(input.val.deleted)]
    /\ input.val.keys[1] < 0

\* the interior pages held by the pager, with their ids as u32
InteriorPages == {AsU32Page(pager[i]) : i \in {j \in 1..Len(pager) : pager[j].ptype = Interior}}

\* C15: every interior page the tree has written to the pager encodes without
\* abort and decodes to a page with the same id, kind, keys and children.
C15_InteriorRoundTrip ==
    status = "ok" =>
        \A p \in InteriorPages :
            LET e == PageToBytes(p)
                r == PageFromBytes(e.bs)
            IN  /\ ~e.panic
                /\ r.tag = "Ok"
                /\ r.val.id = p.id /\ r.val.ptype = p.ptype /\ r.val.keys = p.keys
                /\ r.val.children = p.children

LeU32(x, n) == x[1] < n \div HALF \/ (x[1] = n \div HALF /\ x[2] <= n % HALF)
\* the encoder was called and returned, and the decoder was called on its
\* bytes and the bytes that follow: the decoder returned the input and the
\* length of the encoding
Returns(val) ==
    /\ bytes # None => ~Unwrap(bytes).panic
    /\ output # None => Unwrap(output) = Ok(Len(Unwrap(bytes).bs), val)
\* a date/time whose fields the packing holds: month, day, minute and second
\* at most 99, year and hour at most 429495
Packable(dt) ==
    /\ LeU32(dt.month, 99) /\ LeU32(dt.day, 99)
    /\ LeU32(dt.minute, 99) /\ LeU32(dt.second, 99)
    /\ LeU32(dt.year, 429495) /\ LeU32(dt.hour, 429495)
PackableValue(val) == val.type = "DateTime" => Packable(val.v)

\* C17 as claimed: every integer, text, tagged value and row decodes from its
\* encoding to an equal value, with a byte count equal to the length of the
\* encoding also when more bytes follow.
C17_ValueRoundTripAny ==
    (input # <<>> /\ input.kind \in {"int", "text", "value", "row"}) => Returns(input.val)

\* C17: every integer, text shorter than 2^32 bytes, tagged value and row, the
\* date/times in them having month, day, minute and second at most 99 and year
\* and hour at most 429495, decodes from its encoding to an equal value, with a
\* byte count equal to the length of the encoding also when more bytes follow.
C17_ValueRoundTrip ==
    /\ (input # <<>> /\ input.kind \in {"int", "text"}) => Returns(input.val)
    /\ (input # <<>> /\ input.kind = "value" /\ PackableValue(input.val)) => Returns(input.val)
    /\ (input # <<>> /\ input.kind = "row"
        /\ \A i \in 1..Len(input.val) : PackableValue(input.val[i])) => Returns(input.val)

\* the case of C17: a row of a text and a date/time decoded with bytes after it
C17_Witness ==
    /\ input # <<>> /\ input.kind = "row" /\ output # None /\ input.rest # <<>>
    /\ Len(input.val) = 2
    /\ input.val[1].type = "VarChar" /\ input.val[1].v.val # <<>>
    /\ input.val[2].type = "DateTime" /\ Packable(input.val[2].v)

\* C18 as claimed: every DateTime of six u32 fields decodes from its 8-byte
\* encoding with the same year, month, day, hour, minute and second.
C18_DateTimeRoundTripAny ==
    (input # <<>> /\ input.kind = "datetime") =>
        /\ bytes # None => ~Unwrap(bytes).panic /\ Len(Unwrap(bytes).bs) = 8
        /\ output # None => Unwrap(output).tag = "Ok" /\ Unwrap(output).val = input.val

\* C18: every DateTime with month, day, minute and second at most 99 and year
\* and hour at most 429495 decodes from its 8-byte encoding with the same year,
\* month, day, hour, minute and second.
C18_DateTimeRoundTrip ==
    (input # <<>> /\ input.kind = "datetime" /\ Packable(input.val)) =>
        /\ bytes # None => ~Unwrap(bytes).panic /\ Len(Unwrap(bytes).bs) = 8
        /\ output # None => Unwrap(output).tag = "Ok" /\ Unwrap(output).val = input.val

\* the case of C18: a decoded date/time with the largest fields the packing
\* holds, whose packed date does not fit 31 bits
C18_Witness ==
    /\ input # <<>> /\ input.kind = "datetime" /\ output # None
    /\ input.val.year = U32(429495) /\ input.val.month = U32(99) /\ input.val.day = U32(99)
    /\ input.val.minute = U32(99)

\* C19: VarChar::from_bytes returns InvalidByteLen when the input is shorter
\* than the 4-byte prefix or than 4 plus the declared length, and InvalidUtf8
\* when the payload is not well-formed UTF-8; it returns an error, it does not
\* abort.
C19_VarCharErrors ==
    (input # <<>> /\ input.kind = "raw" /\ output # None) =>
        LET raw == input.val
            len == U32FromLe(SubSeq(raw, 1, 4))
            short == Len(raw) < 4 \/ len[1] # 0 \/ 4 + len[2] > Len(raw)
        IN  /\ Unwrap(output).tag # "Panic"
            /\ short => Unwrap(output) = Err("InvalidByteLen")
            /\ (~short /\ ~ValidUtf8(SubSeq(raw, 5, 4 + len[2]))) =>
                  Unwrap(output) = Err("InvalidUtf8")

\* what a read of the id returns from a store with the given history
Expected(map, id) == IF id \in DOMAIN map THEN PageOk(map[id]) ELSE PageNotFound

\* C20: each pager is a map from page id to page: a read returns the page last
\* written under the id, whatever was written under other ids and read since,
\* and PageNotFound for an id never written; writing a page twice leaves the
\* state that writing it once leaves.
C20_PagerIsMap ==
    /\ status = "ok"
    /\ output # None =>
          Unwrap(output).res =
              Expected(IF Unwrap(output).store = "mem" THEN stored.mem ELSE stored.file,
                       Unwrap(output).id)
    /\ \A id \in 0..(MaxPid + 1) :
          /\ MemRead(pager, id) = Expected(stored.mem, id)
          /\ FileRead(fp, id).res = Expected(stored.file, id)
    /\ \A page \in StorePages :
          /\ WritePage(WritePage(pager, page), page) = WritePage(pager, page)
          /\ FileWrite(FileWrite(fp, page), page) = FileWrite(fp, page)

\* the case of C20: a page of the file pager overwritten after other ids were
\* written, then read, with an id that was never written
C20_Witness ==
    /\ output # None /\ Unwrap(output).store = "file" /\ Unwrap(output).res.found
    /\ Len(fp.wal) >= 2 /\ fp.wal[1].id = Unwrap(output).id /\ fp.wal[1].keys # <<>>
    /\ Len(pager) >= 2
    /\ \E id \in 0..MaxPid : id \notin DOMAIN stored.file

\* a FilePager holding the page in its cache and, encoded, in its file
Cached(f, page) ==
    [f EXCEPT !.cache = <<page>>, !.offsets = <<<<page.id, 0>>>>,
              !.file = <<PageToBytes(AsU32Page(page)).bs>>]

\* C21: given the same write_page, read_page and commit calls, a FilePager that
\* starts with an empty write ahead log, cache and offset table returns for
\* every read what a MemPager returns (the same page, or PageNotFound), and a
\* read is answered from the write ahead log before the cache and the file.
C21_FileRefinesMem ==
    /\ status = "ok"
    /\ output # None => Unwrap(output).file = Unwrap(output).res
    /\ \A id \in 0..(MaxPid + 1) : FileRead(fp, id).res = MemRead(pager, id)
    /\ \A i \in 1..Len(fp.wal) : \A page \in StorePages :
          page.id = fp.wal[i].id =>
              FileRead(Cached(fp, page), page.id).res = PageOk(fp.wal[i])

\* the case of C21: a page with an entry written after another id and then read
\* from both pagers, with an id that was never written
C21_Witness ==
    /\ output # None /\ Unwrap(output).store = "both" /\ Unwrap(output).file.found
    /\ Len(fp.wal) >= 2 /\ fp.wal[2].id = Unwrap(output).id /\ fp.wal[2].keys # <<>>
    /\ Len(pager) >= 2
    /\ \E id \in 0..MaxPid : id \notin DOMAIN stored.file

\* C22: BTree::new(b, is_unique) aborts unless b is odd and b >= 3; otherwise
\* the new tree has root id 0, depth 0, next id 1 and a pager holding exactly
\* one page, an empty leaf with id 0 and no sibling, so find returns None and
\* find_range returns an empty sequence for every key.
C22_NewTree ==
    /\ (status = "ok") <=> (b % 2 = 1 /\ b >= 3)
    /\ status = "ok" =>
          /\ root_id = 0 /\ depth = 0 /\ next_id = 1
          /\ Len(pager) = 1
          /\ pager[1].id = 0 /\ pager[1].ptype = Leaf /\ pager[1].sibling = None
          /\ pager[1].keys = <<>> /\ pager[1].vals = <<>> /\ pager[1].deleted = <<>>
          /\ \A key \in Keys : \A r \in Find(key) : ~r.panic /\ r.val = None
          /\ \A min \in Keys : \A max \in Keys : \A r \in FindRange(min, max) :
                ~r.panic /\ ~r.hang /\ r.kvs = <<>>
    /\ output # None => Unwrap(output).val = None /\ Unwrap(output).kvs = <<>>

\* the case of C22: a tree built with a branching factor above 3 and a range
\* read from it
C22_Witness ==
    /\ status = "ok" /\ b > 3
    /\ output # None /\ Unwrap(output).op = "find_range"
    /\ Unwrap(output).min < Unwrap(output).max

\* the leaf after the splice of BTree::insert at the index s.idx
Spliced(leaf, key, val, s) ==
    [leaf EXCEPT !.keys = InsertAt(leaf.keys, s.idx, key),
                 !.vals = InsertAt(leaf.vals, s.idx, val),
                 !.deleted = InsertAt(leaf.deleted, s.idx, FALSE)]

\* the positions of the tombstoned entries of a page
Tombstones(page) == {i \in 0..(Len(page.deleted) - 1) : At(page.deleted, i)}

\* C23: in insert, after the new entry is spliced into a leaf, the compaction
\* removes exactly one entry when the leaf holds a tombstoned entry, the entry
\* removed is the rightmost tombstoned entry of the leaf, and nothing is removed
\* from a leaf without tombstone; an entry whose tombstone bit is false, the
\* new entry included, is never removed.
C23_Compaction ==
    status = "ok" =>
    \A key \in KeysOf(is_unique) :
        LET leaf == ReadPage(pager, FindLeaf(Tree, key).id)
        IN  \A s \in BinarySearch(leaf.keys, key) :
                MayInsert(s) =>
                    LET page == Spliced(leaf, key, 10, s)
                        last == CHOOSE i \in Tombstones(page) :
                                    \A j \in Tombstones(page) : j <= i
                    IN  GarbageCollect(page) =
                            IF Tombstones(page) = {} THEN page
                            ELSE [page EXCEPT !.keys = RemoveAt(page.keys, last),
                                              !.vals = RemoveAt(page.vals, last),
                                              !.deleted = RemoveAt(page.deleted, last)]

\* C24: after every completed operation, every interior page stored in the
\* pager has a children sequence exactly one longer than its keys sequence.
C24_InteriorChildren ==
    \A i \in 1..Len(pager) :
        pager[i].ptype = Interior => Len(pager[i].children) = Len(pager[i].keys) + 1

\* the keys of a page in order: strictly ascending, or non-decreasing
Sorted(keys, strict) ==
    \A i \in 1..(Len(keys) - 1) :
        IF strict THEN keys[i] < keys[i + 1] ELSE keys[i] <= keys[i + 1]

\* C25: after every completed operation, the keys of every page (leaf and
\* interior) are sorted: strictly ascending when the tree is unique,
\* non-decreasing otherwise.
C25_KeysSorted ==
    \A i \in 1..Len(pager) : Sorted(pager[i].keys, is_unique)

\* the case of C25: a tree with duplicates whose leaf holds a key twice under an
\* interior page of two keys, after a delete
C25_Witness ==
    /\ status = "ok" /\ ~is_unique /\ depth >= 1
    /\ \E i \in 1..Len(pager) : pager[i].ptype = Interior /\ Len(pager[i].keys) >= 2
    /\ \E i \in 1..Len(pager) :
          /\ pager[i].ptype = Leaf /\ Len(pager[i].keys) >= 2
          /\ pager[i].keys[1] = pager[i].keys[2]
          /\ \E j \in 1..Len(pager[i].deleted) : pager[i].deleted[j]

\* C26: after every completed operation, every leaf page stored in the pager
\* has keys, values and tombstone-bit sequences of the same length, so the two
\* length assertions of the page encoding hold for every page the tree writes.
C26_ParallelVectors ==
    \A i \in 1..Len(pager) :
        pager[i].ptype = Leaf =>
            /\ Len(pager[i].keys) = Len(pager[i].vals)
            /\ Len(pager[i].vals) = Len(pager[i].deleted)
            /\ ~PageToBytes(AsU32Page(pager[i])).panic

\* the case of C26: leaves written by a split, one of them holding a tombstone
\* beside a live entry
C26_Witness ==
    /\ status = "ok" /\ depth >= 1
    /\ \E i \in 1..Len(pager) :
          /\ pager[i].ptype = Leaf /\ Len(pager[i].keys) >= 2
          /\ \E j \in 1..Len(pager[i].deleted) : pager[i].deleted[j]
          /\ \E j \in 1..Len(pager[i].deleted) : ~pager[i].deleted[j]

\* the inserts of a key that splice a new entry into a leaf: the outcome of the
\* binary search, the leaf after splice and compaction, and the path to it
Splices(key) ==
    LET d == Descend(pager, root_id, depth, key, <<>>)
        leaf == ReadPage(pager, d.id)
    IN  {[s |-> s, leaf |-> leaf, visited |-> d.visited,
          page |-> GarbageCollect(Spliced(leaf, key, 10, s))] :
            s \in {x \in BinarySearch(leaf.keys, key) : MayInsert(x)}}

\* the splits of an insert: the page before the split, and the source page and
\* the new sibling as the insert leaves them in the pager
SplitsOf(key) ==
    UNION {LET after == InsertAtLeaf(Tree, c.visited, c.leaf, key, 10, c.s).t.pages
               ins == SplitInputs(Tree, c.page, c.visited, depth + 1)
           IN  {[before |-> ins[n].page,
                 source |-> ReadPage(after, ins[n].page.id),
                 sibling |-> ReadPage(after, ins[n].nid),
                 nid |-> ins[n].nid] : n \in 1..Len(ins)}
           : c \in {x \in Splices(key) : NeedsSplit(x.page)}}

\* C27: when a page with b keys is split, with s = floor(b/2), the source keeps
\* keys[0..s] inclusive (s + 1 keys, the split key stays in the source) and the
\* new sibling receives the other b - s - 1 keys in the same order; for a leaf
\* the values and tombstone bits move with their keys, the new sibling takes
\* the source's former right sibling and the source's right sibling becomes the
\* new page; source followed by sibling equals the page before the split.
C27_Split ==
    status = "ok" =>
    \A key \in KeysOf(is_unique) : \A e \in SplitsOf(key) :
        LET s == b \div 2
        IN  /\ Len(e.before.keys) = b
            /\ e.source.keys = SubSeq(e.before.keys, 1, s + 1)
            /\ e.sibling.keys = SubSeq(e.before.keys, s + 2, b)
            /\ Len(e.sibling.keys) = b - s - 1
            /\ e.source.id = e.before.id /\ e.sibling.id = e.nid
            /\ e.source.ptype = e.before.ptype /\ e.sibling.ptype = e.before.ptype
            /\ e.source.keys \o e.sibling.keys = e.before.keys
            /\ e.source.vals \o e.sibling.vals = e.before.vals
            /\ e.source.deleted \o e.sibling.deleted = e.before.deleted
            /\ e.source.children \o e.sibling.children = e.before.children
            /\ e.before.ptype = Leaf =>
                  /\ Len(e.source.vals) = s + 1 /\ Len(e.source.deleted) = s + 1
                  /\ e.sibling.sibling = e.before.sibling
                  /\ e.source.sibling = Some(e.nid)

\* the case of C27: an insert that splits a leaf with a right sibling and then
\* the interior page above it, in a tree that holds a tombstone
C27_Witness ==
    /\ status = "ok"
    /\ \E key \in KeysOf(is_unique) :
          /\ \E e \in SplitsOf(key) : e.before.ptype = Leaf /\ IsSome(e.before.sibling)
          /\ \E e \in SplitsOf(key) : e.before.ptype = Interior
    /\ \E i \in 1..Len(pager) : \E j \in 1..Len(pager[i].deleted) : pager[i].deleted[j]

\* the splits of one spliced insert end with the root: the root overflows
RootOverflows(c) ==
    LET ins == SplitInputs(Tree, c.page, c.visited, depth + 1)
    IN  NeedsSplit(c.page) /\ ins # <<>> /\ ins[Len(ins)].page.id = root_id

\* C28: when the root overflows, insert creates a new sibling and a new
\* interior root holding exactly one key (the split key) and two children (the
\* old root, then the sibling), writes all three pages, raises depth by exactly
\* 1 and sets the root id to the new root; depth and root id change in no other
\* case, so one insert raises depth by at most 1 and depth never decreases.
C28_RootSplit ==
    [][/\ depth' \in {depth, depth + 1}
       /\ (depth' = depth) <=> (root_id' = root_id)
       /\ depth' = depth + 1 =>
             /\ ~HasPage(pager, root_id') /\ HasPage(pager', root_id')
             /\ HasPage(pager', root_id)
             /\ ReadPage(pager', root_id').ptype = Interior
             /\ Len(ReadPage(pager', root_id').keys) = 1
             /\ Len(ReadPage(pager', root_id').children) = 2
             /\ ReadPage(pager', root_id').children[1] = root_id
             /\ ~HasPage(pager, ReadPage(pager', root_id').children[2])
             /\ HasPage(pager', ReadPage(pager', root_id').children[2])
             /\ \E key \in KeysOf(is_unique) : \E c \in Splices(key) : RootOverflows(c)
       /\ status = "ok" =>
             \A key \in KeysOf(is_unique) : \A c \in Splices(key) :
                 LET o == InsertAtLeaf(Tree, c.visited, c.leaf, key, 10, c.s).t
                     ins == SplitInputs(Tree, c.page, c.visited, depth + 1)
                     e == ins[Len(ins)]
                 IN  IF RootOverflows(c)
                     THEN /\ o.depth = depth + 1
                          /\ o.root_id = e.nid + 1 /\ o.next_id = e.nid + 2
                          /\ HasPage(o.pages, root_id) /\ HasPage(o.pages, e.nid)
                          /\ HasPage(o.pages, o.root_id)
                          /\ ReadPage(o.pages, o.root_id).ptype = Interior
                          /\ ReadPage(o.pages, o.root_id).keys = <<At(e.page.keys, b \div 2)>>
                          /\ ReadPage(o.pages, o.root_id).children = <<root_id, e.nid>>
                          /\ ReadPage(o.pages, e.nid).keys = Drain(e.page.keys, b \div 2 + 1)
                          /\ ReadPage(o.pages, root_id).keys = Keep(e.page.keys, b \div 2 + 1)
                     ELSE o.depth = depth /\ o.root_id = root_id
      ]_vars

\* the case of C28: a tree whose interior root has been split, after a delete
C28_Witness ==
    /\ status = "ok" /\ depth = 2
    /\ Len(ReadPage(pager, root_id).keys) = 1
    /\ \E i \in 1..Len(pager) : \E j \in 1..Len(pager[i].deleted) : pager[i].deleted[j]

\* the ids of the pages of a pager
Ids(pages) == {pages[i].id : i \in 1..Len(pages)}

\* one page for each id below next, and no other page
ExactIds(pages, next) == Ids(pages) = 0..(next - 1) /\ Len(pages) = next

\* C29: page ids are allocated from next_id, which never decreases: after every
\* operation the pager holds exactly one page for each id in 0..next_id-1, no
\* two pages share an id, and an id once given to a page is never given to a
\* new page.
C29_PageIds ==
    [][/\ ExactIds(pager, next_id) /\ ExactIds(pager', next_id')
       /\ next_id' >= next_id
       /\ Ids(pager') \ Ids(pager) = next_id..(next_id' - 1)
       /\ \A id \in Ids(pager) :
             /\ HasPage(pager', id)
             /\ ReadPage(pager', id).ptype = ReadPage(pager, id).ptype
      ]_vars

\* the case of C29: pages allocated by a leaf split and by a root split, the
\* tree two levels deep
C29_Witness ==
    /\ status = "ok" /\ depth = 2 /\ next_id >= 7
    /\ \E i \in 1..Len(pager) : \E j \in 1..Len(pager[i].deleted) : pager[i].deleted[j]

\* C30: find and find_range are read-only: after either call the depth, root
\* id, next id and every page in the pager are the same as before the call.
C30_ReadOnly ==
    [][((\E key \in 1..ReadKey : FindCall(key))
        \/ (\E min \in 1..ReadKey : \E max \in 1..ReadKey : FindRangeCall(min, max)))
       => /\ depth' = depth /\ root_id' = root_id /\ next_id' = next_id
          /\ pager' = pager
      ]_vars

\* the case of C30: a range read over two leaves of a tree with a tombstone
\* that returned live entries
C30_Witness ==
    /\ status = "ok" /\ depth >= 1
    /\ output # None /\ Unwrap(output).op = "find_range" /\ Len(Unwrap(output).kvs) >= 2
    /\ Unwrap(output).kvs[1][1] < Unwrap(output).kvs[Len(Unwrap(output).kvs)][1]
    /\ \E i \in 1..Len(pager) : \E j \in 1..Len(pager[i].deleted) : pager[i].deleted[j]

\* C31: delete(k) only sets tombstone bits of entries whose key is k: the keys,
\* values, children, sibling pointers and number of entries of every page, the
\* set of pages, depth, root id, next id, and the tombstone bits of entries
\* with other keys are unchanged.
C31_DeleteSetsBitsOnly ==
    [][\A k \in Keys :
          Delete(k) =>
              /\ depth' = depth /\ root_id' = root_id /\ next_id' = next_id
              /\ Len(pager') = Len(pager)
              /\ \A i \in 1..Len(pager) :
                    /\ [pager'[i] EXCEPT !.deleted = pager[i].deleted] = pager[i]
                    /\ Len(pager'[i].deleted) = Len(pager[i].deleted)
                    /\ \A j \in 1..Len(pager[i].deleted) :
                          /\ pager[i].keys[j] # k =>
                                pager'[i].deleted[j] = pager[i].deleted[j]
                          /\ pager[i].deleted[j] => pager'[i].deleted[j]
      ]_vars

\* the case of C31: a delete that marked the entries of its key in two leaves
\* of a tree with duplicates and left a live entry of another key
C31_Witness ==
    /\ status = "ok" /\ ~is_unique /\ wdel /\ depth >= 1
    /\ Cardinality(LeavesWith(watch)) >= 2
    /\ \A i \in LeavesWith(watch) : \A j \in 1..Len(pager[i].keys) :
          pager[i].keys[j] = watch => pager[i].deleted[j]
    /\ \E i \in 1..Len(pager) : \E j \in 1..Len(pager[i].deleted) :
          pager[i].ptype = Leaf /\ ~pager[i].deleted[j]

\* C32: after every write_page on the file-backed pager, the write buffer holds
\* at most wal_max pages and at most one page per id.
C32_BoundedLog ==
    /\ Len(fp.wal) <= fp.wal_max
    /\ \A i \in 1..Len(fp.wal) : \A j \in 1..Len(fp.wal) :
          fp.wal[i].id = fp.wal[j].id => i = j

\* the keys of the pages of the subtree of the page id, d levels above the leaves
RECURSIVE SubtreeKeys(_, _)
SubtreeKeys(id, d) ==
    Range(ReadPage(pager, id).keys)
    \cup (IF d = 0 THEN {}
          ELSE UNION {SubtreeKeys(c, d - 1) : c \in Range(ReadPage(pager, id).children)})

\* the key k lies in the interval of the child index i of an interior page
InInterval(page, i, k) ==
    /\ i < Len(page.keys) => k <= At(page.keys, i)
    /\ i > 0 => IF is_unique THEN k > At(page.keys, i - 1) ELSE k >= At(page.keys, i - 1)

\* the subtree of the page id, d levels above the leaves, is a search tree
RECURSIVE SearchTree(_, _)
SearchTree(id, d) ==
    d = 0 \/ LET page == ReadPage(pager, id)
             IN  \A i \in 0..(Len(page.children) - 1) :
                     /\ \A k \in SubtreeKeys(At(page.children, i), d - 1) :
                           InInterval(page, i, k)
                     /\ SearchTree(At(page.children, i), d - 1)

\* the leaves under the page id whose intervals, at every level, admit the key
RECURSIVE CanHold(_, _, _)
CanHold(id, d, k) ==
    IF d = 0 THEN {id}
    ELSE LET page == ReadPage(pager, id)
         IN  UNION {CanHold(At(page.children, i), d - 1, k) :
                       i \in {j \in 0..(Len(page.children) - 1) : InInterval(page, j, k)}}

\* the place of a leaf in the walk along the right-sibling pointers
PlaceOf(id) ==
    LET chain == Chain(Leftmost(root_id, depth), Len(pager) + 1)
    IN  MinOf({i \in 1..Len(chain) : chain[i] = id})

\* C33: search-tree ordering holds after any sequence of operations: for every
\* interior page and every child index i, each key stored in the subtree of
\* children[i] is <= keys[i] when i is below the number of keys, and
\* > keys[i-1] when i > 0 (>= in a non-unique tree); so the descent by the
\* per-page search reaches the one leaf that can hold a key (the leftmost such
\* leaf in a non-unique tree).
C33_SearchTree ==
    status = "ok" =>
        /\ SearchTree(root_id, depth)
        /\ \A k \in Keys :
              LET d == FindLeaf(Tree, k)
                  can == CanHold(root_id, depth, k)
              IN  /\ ~d.panic /\ d.id \in can
                  /\ is_unique => can = {d.id}
                  /\ \A id \in can : PlaceOf(d.id) <= PlaceOf(id)

\* the case of C33: a tree two levels deep with duplicates and a tombstone, and
\* a key that two leaves can hold
C33_Witness ==
    /\ status = "ok" /\ depth = 2
    /\ \E k \in Keys : Cardinality(CanHold(root_id, depth, k)) >= 2
    /\ \E i \in 1..Len(pager) : \E j \in 1..Len(pager[i].deleted) : pager[i].deleted[j]

\* every path from the page id down has d interior pages and then a leaf
RECURSIVE Balanced(_, _)
Balanced(id, d) ==
    /\ HasPage(pager, id)
    /\ IF d = 0 THEN ReadPage(pager, id).ptype = Leaf
       ELSE /\ ReadPage(pager, id).ptype = Interior
            /\ ReadPage(pager, id).children # <<>>
            /\ \A c \in Range(ReadPage(pager, id).children) : Balanced(c, d - 1)

\* C34: the tree stays balanced: after any sequence of operations every path
\* from the root to a leaf has exactly depth interior pages, so the page
\* reached after depth descent steps is always a Leaf and every page reached
\* in fewer steps is Interior.
C34_Balanced ==
    status = "ok" =>
        /\ Balanced(root_id, depth)
        /\ \A k \in Keys :
              LET d == FindLeaf(Tree, k)
              IN  /\ ~d.panic /\ Len(d.visited) = depth
                  /\ ReadPage(pager, d.id).ptype = Leaf
                  /\ \A i \in 1..Len(d.visited) :
                        ReadPage(pager, d.visited[i]).ptype = Interior

\* the case of C34: a tree two levels deep, one of its interior pages the left
\* half of a split, after a delete
C34_Witness ==
    /\ status = "ok" /\ depth = 2
    /\ \E i \in 1..Len(pager) :
          /\ pager[i].ptype = Interior /\ pager[i].id # root_id
          /\ Len(pager[i].children) = Len(pager[i].keys)
    /\ \E i \in 1..Len(pager) : \E j \in 1..Len(pager[i].deleted) : pager[i].deleted[j]

\* the entries of the leaves that have the key, each as <<page, index>>
EntriesOf(key) ==
    UNION {{<<i, j>> : j \in {x \in 1..Len(pager[i].keys) : pager[i].keys[x] = key}} :
              i \in {y \in 1..Len(pager) : pager[y].ptype = Leaf}}

\* C35: in a unique tree, after any sequence of inserts and deletes, no key
\* occurs in more than one entry over all leaves, tombstoned entries counted.
C35_UniqueKeys ==
    is_unique => \A k \in Keys : Cardinality(EntriesOf(k)) <= 1

\* the case of C35: a unique tree over two leaves or more that holds the
\* watched key, inserted since its last delete, and a tombstone of another key
C35_Witness ==
    /\ status = "ok" /\ is_unique /\ depth >= 1
    /\ hist # <<>> /\ Cardinality(EntriesOf(watch)) = 1
    /\ \E i \in 1..Len(pager) : \E j \in 1..Len(pager[i].deleted) :
          pager[i].deleted[j] /\ pager[i].keys[j] # watch

\* every page other than the root holds at least floor(b/2) keys
MinKeys(pages, root) ==
    \A i \in 1..Len(pages) : pages[i].id # root => Len(pages[i].keys) >= b \div 2

\* C36 as stated: no insert or delete lowers the number of entries of a leaf,
\* and after every completed operation every page other than the root holds at
\* least floor(b/2) keys (tombstoned entries counted), so a page created by a
\* split never becomes empty.
C36_OccupancyAny ==
    [][/\ \A i \in 1..Len(pager) :
             pager[i].ptype = Leaf => Len(pager'[i].keys) >= Len(pager[i].keys)
       /\ MinKeys(pager', root_id')
      ]_vars

\* C36: no delete and no insert lowers the number of entries of a leaf, except
\* the insert that splits the leaf, which leaves it floor(b/2) + 1 entries;
\* after every completed operation every page other than the root holds at
\* least floor(b/2) keys (tombstoned entries counted), so a page created by a
\* split never becomes empty.
C36_Occupancy ==
    [][/\ \A i \in 1..Len(pager) :
             pager[i].ptype = Leaf =>
                 IF pager'[i].sibling = pager[i].sibling
                 THEN Len(pager'[i].keys) >= Len(pager[i].keys)
                 ELSE Len(pager'[i].keys) = b \div 2 + 1
       /\ MinKeys(pager', root_id')
       /\ \A i \in 1..Len(pager') : pager'[i].keys # <<>>
      ]_vars

\* the case of C36: a tree of branching factor 5 whose first leaf was split and
\* holds 3 entries, one of them tombstoned
C36_Witness ==
    /\ status = "ok" /\ b = 5 /\ depth = 1
    /\ Len(pager[1].keys) = 3 /\ IsSome(pager[1].sibling)
    /\ \E j \in 1..Len(pager[1].deleted) : pager[1].deleted[j]

\* C37: find_range and delete terminate on every tree reached by any sequence
\* of operations: the right-sibling chain has no cycle, and each pass of their
\* outer loop moves to the next leaf of the chain until a key greater than the
\* bound is met or the sibling is absent.
C37_Terminates ==
    /\ status # "hang"
    /\ status = "ok" =>
          /\ \A i \in 1..Len(pager) :
                pager[i].ptype = Leaf =>
                    LET chain == Chain(pager[i].id, Len(pager) + 1)
                    IN  /\ Len(chain) <= Len(pager)
                        /\ \A m \in 1..Len(chain) : \A n \in 1..Len(chain) :
                              chain[m] = chain[n] => m = n
                        /\ ~IsSome(ReadPage(pager, chain[Len(chain)]).sibling)
          /\ \A min \in Bounds : \A max \in Bounds : \A r \in FindRange(min, max) :
                ~r.hang /\ ~r.panic
          /\ \A k \in Keys : ~DeleteOutcome(k).hang /\ ~DeleteOutcome(k).panic

\* the case of C37: a chain of three leaves or more, a range scan that walks
\* over all of them, and a delete that marked entries in two leaves
C37_Witness ==
    /\ status = "ok" /\ wdel /\ Cardinality(LeavesWith(watch)) >= 2
    /\ Len(Chain(Leftmost(root_id, depth), Len(pager) + 1)) >= 3
    /\ \E r \in FindRange(0, MaxKey + 1) : Len(r.kvs) >= 2

====
